---- MODULE Spec2Model ----
(***************************************************************************)
(* Model of the per-client token-bucket rate limiter of mcp-server         *)
(* (package middleware: RateLimiter, its Allow / cleanup / Stop methods    *)
(* and the HTTP middleware built on it).                                   *)
(*                                                                         *)
(* Time.  The limiter uses a time.Time only through differences            *)
(* now.Sub(b.lastCheck), so every stored time is kept as its offset from   *)
(* the clock's current reading: time.Now() is 0, a stored time is <= 0,    *)
(* and a tick of the clock lowers every stored time by one.  A time more   *)
(* than Horizon ticks old is kept as -Horizon; Horizon is large enough     *)
(* that such a time is stale for the sweep and refills a bucket fully, so  *)
(* the limiter cannot tell it from the exact value.                        *)
(*                                                                         *)
(* Tokens.  A bucket's float64 token count is kept in fixed point: the     *)
(* integer stored is the token count times TokenUnit, and `rate` is the    *)
(* number of such units refilled per clock tick, so the arithmetic of      *)
(* Allow is exact (float64 rounding is not modelled).                      *)
(*                                                                         *)
(* The constructor NewRateLimiter, the identity resolution extractIP, the  *)
(* request introspector MCPTracingMiddleware, the configuration of package *)
(* config and the handler chain main assembles are modelled after the      *)
(* limiter, each with a specification of its own over the variables of the *)
(* HTTP layer.  SpecAudit runs the limiter beside a reference limiter that *)
(* never evicts.                                                           *)
(***************************************************************************)
EXTENDS Integers, FiniteSets, Sequences, TLC

\* ------------------------------------------------------------------ bounds
\* number of request goroutines
NumCallers == 2
\* largest configured burst (bucket size, in whole tokens)
MaxBurst == 2
\* largest configured refill rate, in token units per clock tick
MaxRate == 2
\* largest configured cleanup interval, in clock ticks
MaxInterval == 2
\* how many ticks the clock may advance while a goroutine is inside Allow's
\* critical section
MaxLag == 1
\* how many times Stop() may be called
MaxStops == 2
\* fixed-point resolution: one token is TokenUnit units
TokenUnit == 2

Identities == {"x", "y"}
Procs == 1 .. NumCallers

\* holder values of the mutex rl.mu
Unlocked == -1
SweepId == 0

\* (a variant whose critical section ends without releasing the mutex)
UnlockMissing(holder) == holder
\* rl.mu.Unlock(), deferred in Allow and called at the end of a sweep: the
\* holder of the mutex afterwards
Unlock(holder) == Unlocked

Min(a, b) == IF a < b THEN a ELSE b
Max(a, b) == IF a > b THEN a ELSE b

VARIABLES
  rate,        \* rl.rate (token units per tick)
  burst,       \* rl.burst
  cleanupInt,  \* rl.cleanupInt
  clients,     \* rl.clients: identity -> [tokens, lastCheck]
  mu,          \* rl.mu: Unlocked, SweepId or the caller holding it
  workload,    \* the environment: which goroutines send requests, with which identities
  nextTick,    \* the time at which the cleanup ticker fires next (an offset, > 0)
  tickPending, \* ticker.C holds a tick (a channel of capacity one)
  sweepPc,     \* position of the cleanup goroutine
  stopClosed,  \* rl.stopClean has been closed
  stopCalls,   \* number of Stop() calls made so far
  crashed,     \* the process has panicked
  pc,          \* position of each request goroutine
  reqIp,       \* the identity extractIP gave the request
  local,       \* Allow's locals: now, exists and the fields read through b
  result,      \* the value Allow returned
  resp,        \* what the middleware itself wrote to the ResponseWriter
  nextCalls,   \* how many times the request's inner handler was invoked
  seqClients,  \* history: the table of a limiter that runs each Allow atomically
  zeroCalls,   \* history: Allow calls on the entry since its creation, none with elapsed time
  zeroGranted, \* history: how many of those were admitted
  lastOutcome, \* history: the last Allow on the identity's entry: "none", "admit",
               \* "deny" or, until the clock ticks, "readmit" (admitted by the first
               \* Allow after a denial, made 1/rate or more after it)
  lastAllowAt, \* history: the time read by the last Allow on the identity's entry
  ideal        \* history: per identity, the bucket of a limiter that never evicts
               \* (tokens, lastCheck) and the credit the rate bound leaves it; an
               \* entry that has refilled fully is the same as no entry and is
               \* not kept

cfgVars == <<rate, burst, cleanupInt, workload>>
sweepVars == <<nextTick, tickPending, sweepPc>>
stopVars == <<stopClosed, stopCalls, crashed>>
callVars == <<pc, reqIp, local, result, resp, nextCalls>>
histVars == <<seqClients, zeroCalls, zeroGranted, lastOutcome, lastAllowAt, ideal>>

\* the HTTP layer: one request and the code that handles it
VARIABLES
  hpc,         \* position of the operation of the HTTP layer that is running
  rlCfg,       \* the RateLimiterConfig passed to NewRateLimiter
  req,         \* r *http.Request: Method, URL.Path, Header, RemoteAddr and Body
  clientIP,    \* the string extractIP returned
  logPayloads, \* the flag MCPTracingMiddleware was built with
  span,        \* the attributes set on the request's span: key -> value
  served,      \* what the next handler saw, one entry per call of next.ServeHTTP
  sent,        \* history: the bytes the client sent as the request's body
  appCfg,      \* cfg *config.Config: AuthEnabled, RateLimitEnabled and the API keys
  visited,     \* the handlers of main's chain the request has entered, in order
  reply,       \* the response written to the request
  handled,     \* number of requests the server has answered
  environ,     \* the process environment config.New reads: name -> value
  validated,   \* the last call of cfg.ValidateAPIKey: its key, result and work
  tool,        \* a call of a TracedTool handler: its arguments, the calls it made
               \* of the wrapped handler, and what it returned
  shutdown     \* history: the calls main has made to shut the server down, in order

pipeVars == <<appCfg, visited, reply, handled>>

confVars == <<environ, validated>>

toolVars == <<tool, shutdown>>

httpVars ==
  <<hpc, rlCfg, req, clientIP, logPayloads, span, served, sent, pipeVars, confVars, toolVars>>

limiterVars == <<cfgVars, clients, mu, sweepVars, stopVars, callVars, histVars>>

vars == <<limiterVars, httpVars>>

\* a string is the sequence of its bytes
EmptyString == <<>>

\* a RateLimiterConfig left at its zero value
ZeroConfig == [RequestsPerSecond |-> 0, BurstSize |-> 0, CleanupInterval |-> 0]

\* the HTTP layer at rest: no operation of it is running
\* an io.Reader over the bytes `data`: `limit` is the number of bytes a
\* http.MaxBytesReader still lets through (Unlimited for a plain reader), `err`
\* the error it returns from now on
Unlimited == -1
Reader(data) == [data |-> data, limit |-> Unlimited, err |-> ""]

\* a request with nothing in it
NoRequest ==
  [Method |-> "GET", Path |-> "/", Header |-> <<>>, RemoteAddr |-> EmptyString,
   Body |-> Reader(EmptyString)]

\* the server of main is not running
PipeIdle ==
  /\ appCfg = [AuthEnabled |-> FALSE, RateLimitEnabled |-> FALSE, apiKeys |-> <<>>]
  /\ visited = <<>>
  /\ reply = [status |-> 0, contentType |-> "", retryAfter |-> "", body |-> <<>>]
  /\ handled = 0

NoValidation == [key |-> EmptyString, valid |-> FALSE, compared |-> 0]

ConfIdle == environ = <<>> /\ validated = NoValidation

\* no tool handler has been called, and main has not started to shut down
NoToolCall == [pc |-> "idle"]
ToolIdle == tool = NoToolCall /\ shutdown = <<>>

HttpIdle ==
  /\ PipeIdle
  /\ ConfIdle
  /\ ToolIdle
  /\ hpc = "off"
  /\ rlCfg = ZeroConfig
  /\ req = NoRequest
  /\ clientIP = EmptyString
  /\ logPayloads = FALSE
  /\ span = <<>>
  /\ served = <<>>
  /\ sent = EmptyString

\* ------------------------------------------------------------------ time
\* time.Now(): the origin of the model's time is the current instant
Now == 0

\* ticks a bucket needs to refill from empty: ceil(burst / rate)
FullRefill == (burst * TokenUnit + rate - 1) \div rate

\* older times are all kept as -Horizon
Horizon == MaxLag + Max(3 * cleanupInt + 1, FullRefill)

\* a stored time after one tick of the clock
Older(t) == IF t > -Horizon THEN t - 1 ELSE t

OlderTable(table) ==
  [i \in DOMAIN table |-> [table[i] EXCEPT !.lastCheck = Older(@)]]

\* ------------------------------------------------------- pure parts of Allow
NoLocal == [now |-> 0, exists |-> FALSE, tokens |-> 0, lastCheck |-> 0]

\* http.StatusTooManyRequests
StatusTooManyRequests == 429

\* the ResponseWriter as the middleware found it: nothing written
NoResponse == [status |-> 0, contentType |-> "", retryAfter |-> "", body |-> <<>>]

\* the denial the middleware writes; json.NewEncoder(w).Encode writes the JSON
\* text of the map, kept here as its list of key/value pairs, and a newline
DenialResponse ==
  [status |-> StatusTooManyRequests, contentType |-> "application/json",
   retryAfter |-> "1", body |-> << <<"error", "rate limit exceeded">>, "\n" >>]

\* float64(rl.burst), in token units
BurstUnits == burst * TokenUnit

\* (a variant that forgets to take the first request's token)
NewBucketFull(t) == [tokens |-> BurstUnits, lastCheck |-> t]
\* the bucket Allow stores for an identity it has no entry for
NewBucket(t) == [tokens |-> BurstUnits - TokenUnit, lastCheck |-> t]

\* (a variant without the clamp)
RefillNoClamp(tokens, elapsed) == tokens + elapsed * rate
\* b.tokens += elapsed * rl.rate, clamped to float64(rl.burst)
Refill(tokens, elapsed) == Min(tokens + elapsed * rate, BurstUnits)

\* (a variant that tests b.tokens > 1)
HasTokenStrict(tokens) == tokens > TokenUnit
\* the admission test b.tokens >= 1
HasToken(tokens) == tokens >= TokenUnit

\* (a variant whose denial leaves the bucket as it was read)
AllowExistingDenyKeeps(tokens, lastCheck, t) ==
  LET refilled == Refill(tokens, t - lastCheck)
  IN  IF HasToken(refilled)
        THEN [bucket |-> [tokens |-> refilled - TokenUnit, lastCheck |-> t], ok |-> TRUE]
        ELSE [bucket |-> [tokens |-> tokens, lastCheck |-> lastCheck], ok |-> FALSE]
\* (a variant whose denial moves lastCheck and drops the refilled fraction)
AllowExistingDenyDiscards(tokens, lastCheck, t) ==
  LET refilled == Refill(tokens, t - lastCheck)
  IN  IF HasToken(refilled)
        THEN [bucket |-> [tokens |-> refilled - TokenUnit, lastCheck |-> t], ok |-> TRUE]
        ELSE [bucket |-> [tokens |-> tokens, lastCheck |-> t], ok |-> FALSE]
\* Allow on an existing bucket whose fields were read as (tokens, lastCheck)
AllowExisting(tokens, lastCheck, t) ==
  LET refilled == Refill(tokens, t - lastCheck)
  IN  IF HasToken(refilled)
        THEN [bucket |-> [tokens |-> refilled - TokenUnit, lastCheck |-> t], ok |-> TRUE]
        ELSE [bucket |-> [tokens |-> refilled, lastCheck |-> t], ok |-> FALSE]

\* denied calls in a row that the history counts for one identity
MaxDenied == 2

\* the identity's entry of `ideal` after an Allow call at time t with outcome
\* ok.  admitted is the time of the last call the limiter admitted, denied the
\* number of calls it denied since, retries the value of denied when the last
\* admitted call was made.  tokens and lastCheck are those of Allow run on a table no sweep touches.
\* credit starts at burst, grows with the rate up to burst and pays one token
\* for every call the limiter admitted: it is negative when the calls admitted
\* since some instant T ago are more than burst + rate x T (it is kept no
\* lower than one unit below zero).
IdealAfter(table, ip, t, ok) ==
  IF ip \notin DOMAIN table
    THEN [tokens |-> BurstUnits - TokenUnit, lastCheck |-> t,
          credit |-> BurstUnits - (IF ok THEN TokenUnit ELSE 0),
          admitted |-> IF ok THEN t ELSE -Horizon,
          denied |-> IF ok THEN 0 ELSE 1, retries |-> 0]
    ELSE LET tokens == Refill(table[ip].tokens, t - table[ip].lastCheck)
             credit == Refill(table[ip].credit, t - table[ip].lastCheck)
         IN  [tokens |-> IF HasToken(tokens) THEN tokens - TokenUnit ELSE tokens,
              lastCheck |-> t,
              credit |-> IF ok THEN Max(credit - TokenUnit, -1) ELSE credit,
              admitted |-> IF ok THEN t ELSE table[ip].admitted,
              denied |-> IF ok THEN 0 ELSE Min(table[ip].denied + 1, MaxDenied),
              retries |-> IF ok THEN table[ip].denied ELSE table[ip].retries]

\* the entries of `ideal` after a tick of the clock: an entry whose tokens and
\* credit were full at every time a running Allow call may have read is
\* dropped, since Allow treats a full bucket and a missing one alike
IdealOlder(table) ==
  LET older == [i \in DOMAIN table |->
                 [table[i] EXCEPT !.lastCheck = Older(@), !.admitted = Older(@)]]
      full(b) == /\ Refill(b.tokens, -MaxLag - b.lastCheck) = BurstUnits
                 /\ Refill(b.credit, -MaxLag - b.lastCheck) = BurstUnits
  IN  [i \in {j \in DOMAIN older : ~full(older[j])} |-> older[i]]

\* Allow as one atomic step on a table
AllowSeq(table, ip, t) ==
  IF ip \notin DOMAIN table
    THEN [bucket |-> NewBucket(t), ok |-> TRUE]
    ELSE AllowExisting(table[ip].tokens, table[ip].lastCheck, t)

\* (a variant in which all identities share one bucket)
PutAll(table, ip, b) == [i \in DOMAIN table \cup {ip} |-> b]
\* rl.clients[ip] = &bucket{...}, and the writes through b
Put(table, ip, b) == [i \in DOMAIN table \cup {ip} |-> IF i = ip THEN b ELSE table[i]]


\* the history counters stop counting one past the burst
ZeroCap == burst + 1

\* the environments: one goroutine serving the requests of two clients, or all
\* goroutines serving the requests of one client
TwoClients == [callers |-> {1}, idents |-> Identities, audit |-> FALSE]
OneClient == [callers |-> Procs, idents |-> {"x"}, audit |-> FALSE]
Workloads == {TwoClients, OneClient}
\* the environment in which the history `ideal` is kept: the requests of one
\* client, audited against a limiter that never evicts
Audited == [callers |-> Procs, idents |-> {"x"}, audit |-> TRUE]

\* ------------------------------------------------------------------- Init
\* the limiter NewRateLimiter returns, no request served yet
Fresh ==
  /\ clients = <<>>
  /\ mu = Unlocked
  /\ nextTick = cleanupInt
  /\ tickPending = FALSE
  /\ sweepPc = "select"
  /\ pc = [t \in Procs |-> "idle"]
  /\ reqIp = [t \in Procs |-> "x"]
  /\ local = [t \in Procs |-> NoLocal]
  /\ result = [t \in Procs |-> FALSE]
  /\ resp = [t \in Procs |-> NoResponse]
  /\ nextCalls = [t \in Procs |-> 0]
  /\ seqClients = <<>>
  /\ zeroCalls = [i \in Identities |-> 0]
  /\ zeroGranted = [i \in Identities |-> 0]
  /\ lastOutcome = [i \in Identities |-> "none"]
  /\ lastAllowAt = [i \in Identities |-> Now]
  /\ ideal = <<>>

\* every configuration within the bounds; the two-client environment is
\* explored with the shortest cleanup interval
Init ==
  /\ rate \in 1 .. MaxRate
  /\ burst \in 1 .. MaxBurst
  /\ cleanupInt \in 1 .. MaxInterval
  /\ workload \in Workloads
  /\ workload = TwoClients => cleanupInt = 1
  /\ stopClosed = FALSE
  /\ stopCalls = 0
  /\ crashed = FALSE
  /\ Fresh
  /\ HttpIdle

\* ---------------------------------------------------- the request goroutines
\* (a variant without mutual exclusion)
LockAlwaysFree == TRUE
\* rl.mu.Lock() returns only when nobody holds the mutex
MutexFree == mu = Unlocked

\* a request arrives at the middleware; extractIP gives its identity
StartRequest(t, ip) ==
  /\ t \in workload.callers
  /\ ip \in workload.idents
  /\ pc[t] \in {"idle", "done"}
  /\ pc' = [pc EXCEPT ![t] = "lock"]
  /\ reqIp' = [reqIp EXCEPT ![t] = ip]
  /\ local' = [local EXCEPT ![t] = NoLocal]
  /\ result' = [result EXCEPT ![t] = FALSE]
  /\ resp' = [resp EXCEPT ![t] = NoResponse]
  /\ nextCalls' = [nextCalls EXCEPT ![t] = 0]
  /\ UNCHANGED <<cfgVars, clients, mu, sweepVars, stopVars, histVars>>

\* Allow: rl.mu.Lock()
AllowLock(t) ==
  /\ pc[t] = "lock"
  /\ MutexFree
  /\ mu' = t
  /\ pc' = [pc EXCEPT ![t] = "read"]
  /\ UNCHANGED <<cfgVars, clients, sweepVars, stopVars,
                 reqIp, local, result, resp, nextCalls, histVars>>

\* Allow: now := time.Now(); b, exists := rl.clients[ip]; the reads through b
AllowRead(t) ==
  /\ pc[t] = "read"
  /\ LET ip == reqIp[t]
         has == ip \in DOMAIN clients
     IN  local' = [local EXCEPT ![t] =
                     [now |-> Now, exists |-> has,
                      tokens |-> IF has THEN clients[ip].tokens ELSE 0,
                      lastCheck |-> IF has THEN clients[ip].lastCheck ELSE 0]]
  /\ pc' = [pc EXCEPT ![t] = "commit"]
  /\ UNCHANGED <<cfgVars, clients, mu, sweepVars, stopVars,
                 reqIp, result, resp, nextCalls, histVars>>

\* what Allow stores and returns, from the values it read
AllowOutcome(l) ==
  IF l.exists
    THEN AllowExisting(l.tokens, l.lastCheck, l.now)
    ELSE [bucket |-> NewBucket(l.now), ok |-> TRUE]

\* (a variant without the return after the denial)
MiddlewareFallsThrough(allowed) ==
  [resp |-> IF allowed THEN NoResponse ELSE DenialResponse, next |-> 1]
\* the middleware after Allow returned: the denial it writes and how many
\* times it calls next.ServeHTTP
MiddlewareOutcome(allowed) ==
  IF ~allowed
    THEN [resp |-> DenialResponse, next |-> 0]
    ELSE [resp |-> NoResponse, next |-> 1]

\* Allow: the writes to the table and the bucket, the deferred rl.mu.Unlock()
\* and the return; then the rest of the middleware, which touches only the
\* request's own ResponseWriter
AllowCommit(t) ==
  /\ pc[t] = "commit"
  /\ LET ip == reqIp[t]
         l == local[t]
         r == AllowOutcome(l)
         s == AllowSeq(seqClients, ip, l.now)
         o == MiddlewareOutcome(r.ok)
         fresh == ~l.exists
         still == l.exists /\ l.now = l.lastCheck /\ zeroCalls[ip] > 0
         n == IF fresh THEN 1
              ELSE IF still THEN Min(zeroCalls[ip] + 1, ZeroCap) ELSE 0
         g == IF fresh THEN 1
              ELSE IF still
                THEN Min(zeroGranted[ip] + (IF r.ok THEN 1 ELSE 0), ZeroCap)
                ELSE 0
     IN  /\ clients' = IF fresh \/ ip \in DOMAIN clients
                         THEN Put(clients, ip, r.bucket) ELSE clients
         /\ result' = [result EXCEPT ![t] = r.ok]
         /\ resp' = [resp EXCEPT ![t] = o.resp]
         /\ nextCalls' = [nextCalls EXCEPT ![t] = nextCalls[t] + o.next]
         /\ seqClients' = Put(seqClients, ip, s.bucket)
         /\ zeroCalls' = [zeroCalls EXCEPT ![ip] = n]
         /\ zeroGranted' = [zeroGranted EXCEPT ![ip] = g]
         /\ lastOutcome' = [lastOutcome EXCEPT ![ip] =
                IF ~r.ok THEN "deny"
                ELSE IF /\ l.exists
                        /\ lastOutcome[ip] = "deny"
                        /\ (l.now - lastAllowAt[ip]) * rate >= TokenUnit
                  THEN "readmit"
                  ELSE "admit"]
         /\ lastAllowAt' = [lastAllowAt EXCEPT ![ip] = l.now]
         /\ ideal' = IF workload.audit
                        THEN Put(ideal, ip, IdealAfter(ideal, ip, l.now, r.ok))
                        ELSE ideal
  /\ mu' = Unlock(t)
  /\ pc' = [pc EXCEPT ![t] = "done"]
  /\ local' = [local EXCEPT ![t] = NoLocal]
  /\ UNCHANGED <<cfgVars, sweepVars, stopVars, reqIp>>

\* ----------------------------------------------------- the cleanup goroutine
\* (variants with the threshold at 1 x and at 3 x the interval)
StaleAfterOne(table, t) ==
  {i \in DOMAIN table : t - table[i].lastCheck > cleanupInt}
StaleAfterThree(table, t) ==
  {i \in DOMAIN table : t - table[i].lastCheck > 3 * cleanupInt}
\* the entries the sweep deletes at time t:
\* now.Sub(b.lastCheck) > 2*rl.cleanupInt
Stale(table, t) ==
  {i \in DOMAIN table : t - table[i].lastCheck > 2 * cleanupInt}

Without(table, gone) == [i \in DOMAIN table \ gone |-> table[i]]

\* select: case <-ticker.C
SweepRecvTick ==
  /\ sweepPc = "select"
  /\ tickPending
  /\ tickPending' = FALSE
  /\ sweepPc' = "lock"
  /\ UNCHANGED <<cfgVars, clients, mu, nextTick, stopVars, callVars, histVars>>

\* rl.mu.Lock()
SweepLock ==
  /\ sweepPc = "lock"
  /\ MutexFree
  /\ mu' = SweepId
  /\ sweepPc' = "sweeping"
  /\ UNCHANGED <<cfgVars, clients, nextTick, tickPending, stopVars, callVars, histVars>>

\* now := time.Now(); the loop over rl.clients; rl.mu.Unlock()
SweepBody ==
  /\ sweepPc = "sweeping"
  /\ LET gone == Stale(clients, Now)
     IN  /\ clients' = Without(clients, gone)
         /\ seqClients' = Without(seqClients, gone \cap DOMAIN seqClients)
         /\ zeroCalls' = [i \in Identities |-> IF i \in gone THEN 0 ELSE zeroCalls[i]]
         /\ zeroGranted' = [i \in Identities |-> IF i \in gone THEN 0 ELSE zeroGranted[i]]
         /\ lastOutcome' = [i \in Identities |-> IF i \in gone THEN "none" ELSE lastOutcome[i]]
         /\ lastAllowAt' = [i \in Identities |-> IF i \in gone THEN Now ELSE lastAllowAt[i]]
  /\ mu' = Unlock(SweepId)
  /\ sweepPc' = "select"
  /\ UNCHANGED <<cfgVars, nextTick, tickPending, stopVars, callVars, ideal>>

\* (a variant with break instead of return: it leaves the select only)
AfterStopBreak == "select"
\* where the goroutine is after case <-rl.stopClean: the return leaves the loop
AfterStop == "exited"

\* select: case <-rl.stopClean: return (the deferred ticker.Stop() runs; nobody
\* reads ticker.C again)
SweepStop ==
  /\ sweepPc = "select"
  /\ stopClosed
  /\ sweepPc' = AfterStop
  /\ tickPending' = FALSE
  /\ nextTick' = 0
  /\ UNCHANGED <<cfgVars, clients, mu, stopVars, callVars, histVars>>

\* ------------------------------------------------------------------ Stop
\* close(rl.stopClean): closing a closed channel panics
CloseChannel(closed) == [closed |-> TRUE, panic |-> closed]

\* Stop().  A panic ends the process: every goroutine is gone and nothing of
\* the limiter's memory remains.
Stop ==
  /\ stopCalls < MaxStops
  /\ stopCalls' = stopCalls + 1
  /\ LET c == CloseChannel(stopClosed)
     IN  /\ stopClosed' = c.closed
         /\ crashed' = c.panic
         /\ IF c.panic
              THEN /\ clients' = <<>>
                   /\ mu' = Unlocked
                   /\ nextTick' = 0
                   /\ tickPending' = FALSE
                   /\ sweepPc' = "exited"
                   /\ pc' = [t \in Procs |-> "idle"]
                   /\ reqIp' = [t \in Procs |-> "x"]
                   /\ local' = [t \in Procs |-> NoLocal]
                   /\ result' = [t \in Procs |-> FALSE]
                   /\ resp' = [t \in Procs |-> NoResponse]
                   /\ nextCalls' = [t \in Procs |-> 0]
                   /\ seqClients' = <<>>
                   /\ zeroCalls' = [i \in Identities |-> 0]
                   /\ zeroGranted' = [i \in Identities |-> 0]
                   /\ lastOutcome' = [i \in Identities |-> "none"]
                   /\ lastAllowAt' = [i \in Identities |-> Now]
                   /\ ideal' = <<>>
              ELSE UNCHANGED <<clients, mu, sweepVars, callVars, histVars>>
  /\ UNCHANGED cfgVars

\* ----------------------------------------------------------------- clock
\* the clock advances by one tick: every stored time is one tick older.  The
\* ticker sends on ticker.C every cleanupInt; the send is dropped when the
\* channel is full, and a stopped ticker sends nothing.
Advance ==
  /\ \A t \in Procs : pc[t] = "commit" => local[t].now > -MaxLag
  /\ clients' = OlderTable(clients)
  /\ seqClients' = OlderTable(seqClients)
  /\ ideal' = IdealOlder(ideal)
  /\ lastAllowAt' = [i \in Identities |->
                       IF lastOutcome[i] = "none" THEN lastAllowAt[i]
                       ELSE Older(lastAllowAt[i])]
  /\ local' = [t \in Procs |->
                 IF pc[t] = "commit"
                   THEN [local[t] EXCEPT
                           !.now = @ - 1,
                           !.lastCheck = IF local[t].exists THEN Older(@) ELSE @]
                   ELSE local[t]]
  /\ IF sweepPc = "exited"
       THEN UNCHANGED <<tickPending, nextTick>>
       ELSE IF nextTick = 1
         THEN /\ tickPending' = TRUE
              /\ nextTick' = cleanupInt
         ELSE /\ nextTick' = nextTick - 1
              /\ UNCHANGED tickPending
  /\ lastOutcome' = [i \in Identities |->
                       IF lastOutcome[i] = "readmit" THEN "admit" ELSE lastOutcome[i]]
  /\ UNCHANGED <<cfgVars, mu, sweepPc, stopVars, pc, reqIp, result, resp, nextCalls,
                 zeroCalls, zeroGranted>>

\* time passes whatever the goroutines are doing
Tick == Advance

\* time passes only when the cleanup goroutine has no tick left to handle:
\* the sweep runs at the instant the ticker fires
SweepIdle == sweepPc = "exited" \/ (sweepPc = "select" /\ ~tickPending)
TickTimely == SweepIdle /\ Advance

\* ------------------------------------------------------------ specification
Request ==
  \E t \in Procs :
    \/ \E ip \in Identities : StartRequest(t, ip)
    \/ AllowLock(t)
    \/ AllowRead(t)
    \/ AllowCommit(t)

Sweep == SweepRecvTick \/ SweepLock \/ SweepBody \/ SweepStop

\* a step of the limiter: the process has not panicked, and the HTTP layer
\* modelled further down is at rest
Next ==
  \/ ~crashed /\ UNCHANGED httpVars /\ Request
  \/ ~crashed /\ UNCHANGED httpVars /\ Sweep
  \/ ~crashed /\ UNCHANGED httpVars /\ Stop
  \/ ~crashed /\ UNCHANGED httpVars /\ Tick

Spec == Init /\ [][Next]_vars

NextTimely ==
  \/ ~crashed /\ UNCHANGED httpVars /\ Request
  \/ ~crashed /\ UNCHANGED httpVars /\ Sweep
  \/ ~crashed /\ UNCHANGED httpVars /\ Stop
  \/ ~crashed /\ UNCHANGED httpVars /\ TickTimely

SpecTimely == Init /\ [][NextTimely]_vars

\* Scheduling.  A goroutine that can run does run: the holder of the mutex
\* finishes its critical section and the sweep, once it holds the mutex, runs
\* its loop body.  sync.Mutex hands the lock to a waiter that has waited long
\* enough (starvation mode), so a caller of Allow gets the mutex if it is free
\* again and again; select chooses at random among the ready
\* cases: the sweep gets the mutex, and takes the stop case, if it can do so
\* again and again.
Fairness ==
  /\ \A t \in Procs : /\ SF_vars(AllowLock(t) /\ UNCHANGED httpVars)
                       /\ WF_vars(AllowRead(t) /\ UNCHANGED httpVars)
                       /\ WF_vars(AllowCommit(t) /\ UNCHANGED httpVars)
  /\ SF_vars(SweepLock /\ UNCHANGED httpVars)
  /\ WF_vars(SweepBody /\ UNCHANGED httpVars)
  /\ SF_vars(SweepStop /\ UNCHANGED httpVars)

\* one configuration, one client
InitFair == Init /\ rate = 1 /\ burst = 1 /\ cleanupInt = 1 /\ workload = OneClient

SpecFair == InitFair /\ [][Next]_vars /\ Fairness

\* the limiter serving one client, with the history `ideal` kept
InitAudit ==
  /\ rate \in 1 .. MaxRate
  /\ burst \in 1 .. MaxBurst
  /\ cleanupInt \in 1 .. MaxInterval
  /\ workload = Audited
  /\ stopClosed = FALSE
  /\ stopCalls = 0
  /\ crashed = FALSE
  /\ Fresh
  /\ HttpIdle

SpecAudit == InitAudit /\ [][Next]_vars

\* ----------------------------------------------------------- NewRateLimiter
\* the defaults of NewRateLimiter; a duration is a number of seconds
DefaultRequestsPerSecond == 10
DefaultBurstSize == 20
Minute == 60
DefaultCleanupInterval == 5 * Minute

\* (a variant that replaces all three inputs as soon as one is not positive)
WithDefaultsTogether(cfg) ==
  IF cfg.RequestsPerSecond <= 0 \/ cfg.BurstSize <= 0 \/ cfg.CleanupInterval <= 0
    THEN [RequestsPerSecond |-> DefaultRequestsPerSecond,
          BurstSize |-> DefaultBurstSize,
          CleanupInterval |-> DefaultCleanupInterval]
    ELSE cfg
\* cfg after the three if statements of NewRateLimiter
WithDefaults(cfg) ==
  [RequestsPerSecond |-> IF cfg.RequestsPerSecond <= 0
                           THEN DefaultRequestsPerSecond ELSE cfg.RequestsPerSecond,
   BurstSize |-> IF cfg.BurstSize <= 0 THEN DefaultBurstSize ELSE cfg.BurstSize,
   CleanupInterval |-> IF cfg.CleanupInterval <= 0
                         THEN DefaultCleanupInterval ELSE cfg.CleanupInterval]

\* the configurations a caller may pass: zero, negative and positive inputs
ConfigInputs ==
  [RequestsPerSecond : -2 .. MaxRate, BurstSize : -2 .. MaxBurst,
   CleanupInterval : -2 .. MaxInterval]

\* no limiter has been constructed and no cleanup goroutine started
NoLimiter ==
  /\ rate = 0
  /\ burst = 0
  /\ cleanupInt = 0
  /\ workload = OneClient
  /\ stopClosed = FALSE
  /\ stopCalls = 0
  /\ crashed = FALSE
  /\ clients = <<>>
  /\ mu = Unlocked
  /\ nextTick = 0
  /\ tickPending = FALSE
  /\ sweepPc = "unstarted"
  /\ pc = [t \in Procs |-> "idle"]
  /\ reqIp = [t \in Procs |-> "x"]
  /\ local = [t \in Procs |-> NoLocal]
  /\ result = [t \in Procs |-> FALSE]
  /\ resp = [t \in Procs |-> NoResponse]
  /\ nextCalls = [t \in Procs |-> 0]
  /\ seqClients = <<>>
  /\ zeroCalls = [i \in Identities |-> 0]
  /\ zeroGranted = [i \in Identities |-> 0]
  /\ lastOutcome = [i \in Identities |-> "none"]
  /\ lastAllowAt = [i \in Identities |-> Now]
  /\ ideal = <<>>

\* before the call of NewRateLimiter
InitNew ==
  /\ ConfIdle
  /\ ToolIdle
  /\ NoLimiter
  /\ PipeIdle
  /\ rlCfg \in ConfigInputs
  /\ hpc = "new"
  /\ req = NoRequest
  /\ clientIP = EmptyString
  /\ logPayloads = FALSE
  /\ span = <<>>
  /\ served = <<>>
  /\ sent = EmptyString

\* NewRateLimiter(cfg): the fields of the limiter it returns, its empty table
\* and the cleanup goroutine it starts, whose ticker has the period cleanupInt
NewRateLimiter ==
  /\ hpc = "new"
  /\ LET cfg == WithDefaults(rlCfg)
     IN  /\ rate' = cfg.RequestsPerSecond
         /\ burst' = cfg.BurstSize
         /\ cleanupInt' = cfg.CleanupInterval
         /\ nextTick' = cfg.CleanupInterval
  /\ clients' = <<>>
  /\ sweepPc' = "select"
  /\ hpc' = "built"
  /\ UNCHANGED <<workload, mu, tickPending, stopVars, callVars, histVars>>
  /\ UNCHANGED <<rlCfg, req, clientIP, logPayloads, span, served, sent, pipeVars, confVars, toolVars>>

SpecNew == InitNew /\ [][NewRateLimiter]_vars

\* ---------------------------------------------------------------- extractIP
\* length of the longest header value and peer address
MaxStrLen == 3

\* the strings over an alphabet, up to a length
Strings(alphabet, n) == UNION {[1 .. k -> alphabet] : k \in 0 .. n}

\* splitFirst(s, sep), its loop entered with index i (counted from 1)
RECURSIVE splitFirstFrom(_, _, _)
splitFirstFrom(s, sep, i) ==
  IF i > Len(s)
    THEN [before |-> s, after |-> EmptyString, found |-> FALSE]
    ELSE IF s[i] = sep
      THEN [before |-> SubSeq(s, 1, i - 1), after |-> SubSeq(s, i + 1, Len(s)),
            found |-> TRUE]
      ELSE splitFirstFrom(s, sep, i + 1)

splitFirst(s, sep) == splitFirstFrom(s, sep, 1)

\* the bytes trimSpace skips
IsSpaceOrTab(c) == c = " " \/ c = "\t"

\* the first loop of trimSpace: start after it; s[start] of the code is
\* s[start + 1] here
RECURSIVE trimStart(_, _, _)
trimStart(s, start, end) ==
  IF start < end /\ IsSpaceOrTab(s[start + 1])
    THEN trimStart(s, start + 1, end)
    ELSE start

\* the second loop of trimSpace: end after it
RECURSIVE trimEnd(_, _, _)
trimEnd(s, start, end) ==
  IF end > start /\ IsSpaceOrTab(s[end])
    THEN trimEnd(s, start, end - 1)
    ELSE end

\* trimSpace(s) == s[start:end]
trimSpace(s) ==
  LET start == trimStart(s, 0, Len(s))
      end == trimEnd(s, start, Len(s))
  IN  SubSeq(s, start + 1, end)

\* r.Header.Get(key): the value of the header, "" when the request has none
HeaderGet(header, key) == IF key \in DOMAIN header THEN header[key] ELSE EmptyString

\* the index of the last byte c of s, 0 when there is none
LastIndexByte(s, c) ==
  IF \E i \in 1 .. Len(s) : s[i] = c
    THEN CHOOSE i \in 1 .. Len(s) : s[i] = c /\ \A j \in i + 1 .. Len(s) : s[j] # c
    ELSE 0

\* net.SplitHostPort(hostport) on an address without brackets: the port starts
\* after the last colon and the host has no colon
SplitHostPort(hostport) ==
  LET i == LastIndexByte(hostport, ":")
      host == SubSeq(hostport, 1, i - 1)
  IN  IF i = 0
        THEN [host |-> EmptyString, port |-> EmptyString, err |-> "missing port in address"]
        ELSE IF LastIndexByte(host, ":") # 0
          THEN [host |-> EmptyString, port |-> EmptyString,
                err |-> "too many colons in address"]
          ELSE [host |-> host, port |-> SubSeq(hostport, i + 1, Len(hostport)),
                err |-> ""]

\* (a variant that consults X-Real-IP first)
extractIPRealFirst(r) ==
  LET xff == HeaderGet(r.Header, "X-Forwarded-For")
      xri == HeaderGet(r.Header, "X-Real-IP")
      first == splitFirst(xff, ",")
      hp == SplitHostPort(r.RemoteAddr)
  IN  IF xri # EmptyString
        THEN trimSpace(xri)
        ELSE IF xff # EmptyString
          THEN IF first.found THEN trimSpace(first.before) ELSE trimSpace(xff)
          ELSE IF hp.err # "" THEN r.RemoteAddr ELSE hp.host
\* extractIP(r)
extractIP(r) ==
  LET xff == HeaderGet(r.Header, "X-Forwarded-For")
      xri == HeaderGet(r.Header, "X-Real-IP")
      first == splitFirst(xff, ",")
      hp == SplitHostPort(r.RemoteAddr)
  IN  IF xff # EmptyString
        THEN IF first.found THEN trimSpace(first.before) ELSE trimSpace(xff)
        ELSE IF xri # EmptyString
          THEN trimSpace(xri)
          ELSE IF hp.err # "" THEN r.RemoteAddr ELSE hp.host

\* the headers a request may carry: each of the two is absent or has a value
HeaderInputs ==
  LET xffs == Strings({"a", " ", ","}, MaxStrLen)
      xris == Strings({"b", " "}, MaxStrLen - 1)
      only(key, values) == {[k \in {key} |-> v] : v \in values}
      both == {[k \in {"X-Forwarded-For", "X-Real-IP"} |->
                 IF k = "X-Forwarded-For" THEN f ELSE x] : f \in xffs, x \in xris}
  IN  {<<>>} \cup only("X-Forwarded-For", xffs) \cup only("X-Real-IP", xris) \cup both

\* the peer addresses
AddrInputs == Strings({"c", ":"}, MaxStrLen)

InitIP ==
  /\ ConfIdle
  /\ ToolIdle
  /\ NoLimiter
  /\ PipeIdle
  /\ rlCfg = ZeroConfig
  /\ hpc = "extractIP"
  /\ req \in {[NoRequest EXCEPT !.Header = h, !.RemoteAddr = a] :
                h \in HeaderInputs, a \in AddrInputs}
  /\ clientIP = EmptyString
  /\ logPayloads = FALSE
  /\ span = <<>>
  /\ served = <<>>
  /\ sent = EmptyString

\* ip := extractIP(r), the first statement of the limiter's middleware
ExtractIP ==
  /\ hpc = "extractIP"
  /\ clientIP' = extractIP(req)
  /\ hpc' = "resolved"
  /\ UNCHANGED <<limiterVars, rlCfg, req, logPayloads, span, served, sent, pipeVars, confVars, toolVars>>

SpecIP == InitIP /\ [][ExtractIP]_vars

\* ----------------------------------------------------- MCPTracingMiddleware
\* A body is a sequence of pieces, each a run of bytes kept whole: one JSON
\* value, or a run of spaces.  Lengths are counted in pieces, and the two size
\* limits of the middleware are scaled to that measure: maxBodySize stands for
\* 1 << 20 bytes and maxPayloadLen for 4096 bytes.
maxBodySize == 3
maxPayloadLen == 2
\* the longest body sent: one piece more than the middleware reads
MaxBodyLen == maxBodySize + 1

\* JSON values of the member "id": none, null, a number (kept as twice its
\* value, so that 1.5 is 3) or a string
JsonId(type, twice, str) == [type |-> type, twice |-> twice, str |-> str]
JsonAbsent == JsonId("absent", 0, "")
IdInputs ==
  {JsonAbsent, JsonId("null", 0, ""), JsonId("number", 2, ""), JsonId("number", 3, ""),
   JsonId("string", 0, "1")}

\* JSON values of the member "params": none, an object with a name and
\* possibly arguments ("" for none), or a JSON string
NoParams == [kind |-> "absent", name |-> "", arguments |-> ""]
ParamsInputs ==
  {NoParams, [kind |-> "string", name |-> "", arguments |-> ""]}
    \cup {[kind |-> "object", name |-> "x", arguments |-> a] : a \in {"", "A1", "A2"}}

\* the pieces: spaces, the marker the middleware appends to a cut payload,
\* and the JSON values: text that is not JSON, null, an array, and an object
\* with the members of a JSON-RPC request ("" for a missing string member)
Piece(kind) ==
  [kind |-> kind, jsonrpc |-> "", id |-> JsonAbsent, method |-> "", params |-> NoParams]
Space == Piece("space")
TruncationMarker == Piece("...(truncated)")
Objects ==
  [kind : {"object"}, jsonrpc : {"", "2.0"}, id : IdInputs,
   method : {"tools/call", "ping"}, params : ParamsInputs]
Documents == {Piece("invalid"), Piece("null"), Piece("array")} \cup Objects

\* the bodies sent: spaces around at most one JSON value
BodyInputs ==
  UNION {{[i \in 1 .. n |-> Space]}
           \cup {[i \in 1 .. n |-> IF i = k THEN d ELSE Space] :
                   k \in 1 .. n, d \in Documents} : n \in 0 .. MaxBodyLen}

\* http.MaxBytesReader(w, body, n)
MaxBytesReader(body, n) == [body EXCEPT !.limit = n]

\* io.ReadAll(body): the bytes and the error it returns, and the reader after
\* it.  A MaxBytesReader whose source is longer than its limit delivers limit
\* bytes, fails and keeps failing; the source is used up either way.
ErrTooLarge == "http: request body too large"
ReadAll(body) ==
  IF body.err # ""
    THEN [bytes |-> EmptyString, err |-> body.err, body |-> body]
    ELSE IF body.limit # Unlimited /\ Len(body.data) > body.limit
      THEN [bytes |-> SubSeq(body.data, 1, body.limit), err |-> ErrTooLarge,
            body |-> [data |-> EmptyString, limit |-> 0, err |-> ErrTooLarge]]
      ELSE [bytes |-> body.data, err |-> "",
            body |-> [body EXCEPT !.data = EmptyString]]

\* http.ErrBodyNotAllowed, the error of a ResponseWriter.Write
ErrBodyNotAllowed == "http: request method or response status code does not allow body"

\* the zero mcpRequest; ID is an `any`: nil, a float64 or a string
NilID == [type |-> "nil", twice |-> 0, str |-> ""]
ZeroRequest == [JSONRPC |-> "", ID |-> NilID, Method |-> "", Params |-> NoParams]

\* json.Unmarshal into an `any`: a number becomes a float64, a string a
\* string, null and a missing member leave it nil
DecodeAny(v) ==
  CASE v.type = "number" -> [type |-> "float64", twice |-> v.twice, str |-> ""]
    [] v.type = "string" -> [type |-> "string", twice |-> 0, str |-> v.str]
    [] OTHER -> NilID

\* the JSON values of a body: its pieces that are not spaces
Values(body) == SelectSeq(body, LAMBDA p : p.kind # "space")

\* json.Unmarshal(body, &req) for req an mcpRequest: fails on a body without
\* a value, with text after the value, with text that is not JSON and with a
\* value that is neither an object nor null; null leaves req as it is
UnmarshalRequest(body) ==
  LET vs == Values(body)
      v == vs[1]
  IN  IF Len(vs) # 1 \/ v.kind \in {"invalid", "array"}
        THEN [err |-> TRUE, req |-> ZeroRequest]
        ELSE IF v.kind = "null"
          THEN [err |-> FALSE, req |-> ZeroRequest]
          ELSE [err |-> FALSE,
                req |-> [JSONRPC |-> v.jsonrpc, ID |-> DecodeAny(v.id),
                         Method |-> v.method, Params |-> v.params]]

\* (a variant that decodes whatever params holds)
UnmarshalToolParamsLenient(params) ==
  [err |-> FALSE, Name |-> params.name, Arguments |-> params.arguments]
\* json.Unmarshal(req.Params, &toolParams): fails when params is not an object
UnmarshalToolParams(params) ==
  IF params.kind = "object"
    THEN [err |-> FALSE, Name |-> params.name, Arguments |-> params.arguments]
    ELSE [err |-> TRUE, Name |-> "", Arguments |-> ""]

\* attribute values; the payload is a string of pieces
Attr(type, int, str, bytes) == [type |-> type, int |-> int, str |-> str, bytes |-> bytes]
AttrString(str) == Attr("STRING", 0, str, EmptyString)

\* span.SetAttributes(kvs...): a key set again takes the new value
SetAttributes(attrs, kvs) ==
  [k \in DOMAIN attrs \cup DOMAIN kvs |-> IF k \in DOMAIN kvs THEN kvs[k] ELSE attrs[k]]

\* one key/value pair
KeyValue(key, value) == [k \in {key} |-> value]

\* int(id) for a float64 id: the fraction is dropped
IntOfFloat(twice) == IF twice >= 0 THEN twice \div 2 ELSE -((-twice) \div 2)

\* the attributes set for the request id
IdAttributes(attrs, id) ==
  CASE id.type = "float64" ->
         SetAttributes(attrs, KeyValue("mcp.request.id", Attr("INT64", IntOfFloat(id.twice), "", EmptyString)))
    [] id.type = "string" ->
         SetAttributes(attrs, KeyValue("mcp.request.id", AttrString(id.str)))
    [] OTHER -> attrs

\* (a variant that records the arguments whatever the flag)
ToolAttributesAlways(attrs, log, r) ==
  LET tp == UnmarshalToolParams(r.Params)
      named == SetAttributes(attrs, KeyValue("mcp.tool.name", AttrString(tp.Name)))
  IN  IF r.Method = "tools/call" /\ r.Params.kind # "absent" /\ ~tp.err
        THEN IF tp.Arguments # ""
               THEN SetAttributes(named, KeyValue("mcp.tool.arguments",
                                                  AttrString(tp.Arguments)))
               ELSE named
        ELSE attrs
\* the attributes set for a tools/call
ToolAttributes(attrs, log, r) ==
  LET tp == UnmarshalToolParams(r.Params)
      named == SetAttributes(attrs, KeyValue("mcp.tool.name", AttrString(tp.Name)))
  IN  IF r.Method = "tools/call" /\ r.Params.kind # "absent" /\ ~tp.err
        THEN IF log /\ tp.Arguments # ""
               THEN SetAttributes(named, KeyValue("mcp.tool.arguments",
                                                  AttrString(tp.Arguments)))
               ELSE named
        ELSE attrs

\* (a variant that cuts the payload without marking it)
PayloadAttributesUnmarked(attrs, log, body) ==
  LET payload == IF Len(body) > maxPayloadLen
                   THEN SubSeq(body, 1, maxPayloadLen)
                   ELSE body
  IN  IF log
        THEN SetAttributes(attrs, KeyValue("mcp.request.payload", Attr("STRING", 0, "", payload)))
        ELSE attrs
\* the attribute set for the payload
PayloadAttributes(attrs, log, body) ==
  LET payload == IF Len(body) > maxPayloadLen
                   THEN SubSeq(body, 1, maxPayloadLen) \o <<TruncationMarker>>
                   ELSE body
  IN  IF log
        THEN SetAttributes(attrs, KeyValue("mcp.request.payload", Attr("STRING", 0, "", payload)))
        ELSE attrs

\* (a variant that records the payload outside the test of the parse error)
ParsedAttributesPayloadFirst(attrs, log, body) ==
  LET u == UnmarshalRequest(body)
      logged == PayloadAttributes(attrs, log, body)
      base == SetAttributes(logged,
                [k \in {"mcp.jsonrpc.version", "mcp.method"} |->
                   IF k = "mcp.method" THEN AttrString(u.req.Method)
                                       ELSE AttrString(u.req.JSONRPC)])
  IN  IF u.err
        THEN logged
        ELSE ToolAttributes(IdAttributes(base, u.req.ID), log, u.req)
\* the attributes set once the body has been read
ParsedAttributes(attrs, log, body) ==
  LET u == UnmarshalRequest(body)
      base == SetAttributes(attrs,
                [k \in {"mcp.jsonrpc.version", "mcp.method"} |->
                   IF k = "mcp.method" THEN AttrString(u.req.Method)
                                       ELSE AttrString(u.req.JSONRPC)])
  IN  IF u.err
        THEN attrs
        ELSE PayloadAttributes(ToolAttributes(IdAttributes(base, u.req.ID), log, u.req),
                               log, body)

\* (a variant that tests the path only)
IsMcpPath(r) == r.Path = "/mcp" \/ r.Path = "/mcp/"
\* the endpoint test of the handler
IsMcpPost(r) == r.Method = "POST" /\ (r.Path = "/mcp" \/ r.Path = "/mcp/")

\* the handler up to its call of next.ServeHTTP: the request it passes on and
\* the attributes on the span
Introspect(log, r, attrs) ==
  LET limited == MaxBytesReader(r.Body, maxBodySize)
      read == ReadAll(limited)
  IN  IF ~IsMcpPost(r)
        THEN [req |-> r, span |-> attrs]
        ELSE IF read.err # ""
          THEN [req |-> [r EXCEPT !.Body = read.body],
                span |-> IF read.err = ErrBodyNotAllowed
                           THEN SetAttributes(attrs,
                                  KeyValue("mcp.request.body_too_large", Attr("BOOL", 1, "", EmptyString)))
                           ELSE SetAttributes(attrs,
                                  KeyValue("mcp.request.read_error", AttrString(read.err)))]
          ELSE [req |-> [r EXCEPT !.Body = Reader(read.bytes)],
                span |-> ParsedAttributes(attrs, log, read.bytes)]

\* the requests: a method, a path and a body
RequestInputs ==
  {[NoRequest EXCEPT !.Method = m, !.Path = p, !.Body = Reader(b)] :
     m \in {"POST", "GET"}, p \in {"/mcp", "/mcp/", "/health"}, b \in BodyInputs}

InitTracing ==
  /\ ConfIdle
  /\ ToolIdle
  /\ NoLimiter
  /\ PipeIdle
  /\ rlCfg = ZeroConfig
  /\ clientIP = EmptyString
  /\ hpc = "tracing"
  /\ logPayloads \in BOOLEAN
  /\ req \in RequestInputs
  /\ sent = req.Body.data
  /\ span = <<>>
  /\ served = <<>>

\* the handler MCPTracingMiddleware(logPayloads)(next) returns, up to its call
\* of next
MCPTracingMiddleware ==
  /\ hpc = "tracing"
  /\ LET out == Introspect(logPayloads, req, span)
     IN  /\ req' = out.req
         /\ span' = out.span
  /\ hpc' = "next"
  /\ UNCHANGED <<limiterVars, rlCfg, clientIP, logPayloads, served, sent, pipeVars, confVars, toolVars>>

\* next.ServeHTTP(w, r): the next handler reads the request's body to its end
NextServeHTTP ==
  /\ hpc = "next"
  /\ LET read == ReadAll(req.Body)
     IN  /\ served' = Append(served, [Method |-> req.Method, Path |-> req.Path,
                                       body |-> read.bytes, err |-> read.err])
         /\ req' = [req EXCEPT !.Body = read.body]
  /\ hpc' = "done"
  /\ UNCHANGED <<limiterVars, rlCfg, clientIP, logPayloads, span, sent, pipeVars, confVars, toolVars>>

NextTracing == MCPTracingMiddleware \/ NextServeHTTP

SpecTracing == InitTracing /\ [][NextTracing]_vars

\* --------------------------------------------------------------- TracedTool
\* the calls of the wrapped handler made one after the other
MaxToolCalls == 2

\* a context.Context, as the values it carries: key -> value
Background == <<>>
WithValue(ctx, key, value) ==
  [k \in DOMAIN ctx \cup {key} |-> IF k = key THEN value ELSE ctx[k]]

\* (a variant that starts the span from a context of its own)
StartDetached(ctx, spanName) == WithValue(Background, "span", spanName)
\* tracer.Start(ctx, name): the context it returns is derived from ctx and
\* carries the new span
Start(ctx, spanName) == WithValue(ctx, "span", spanName)

\* the arguments of a call: the caller's context, a *mcp.CallToolRequest (nil,
\* or with Params.Arguments nil or set) and the input, which json.Marshal
\* encodes or not
ContextInputs == {Background, WithValue(Background, "test-key", "test-value")}
NilRequest == [nil |-> TRUE, Arguments |-> ""]
ToolRequests ==
  {NilRequest, [nil |-> FALSE, Arguments |-> ""], [nil |-> FALSE, Arguments |-> "A1"]}
ToolInputs ==
  {[value |-> "", marshals |-> TRUE], [value |-> "test", marshals |-> TRUE],
   [value |-> "chan", marshals |-> FALSE]}

\* the wrapped handlers: what each returns as (result, output, err) for the
\* arguments it is called with.  One echoes its input, one fails, one returns
\* the value its context carries, one returns a *mcp.CallToolResult.
HandlerKinds == {"success", "error", "context", "result"}
HandlerReturn(kind, ctx, r, input) ==
  CASE kind = "success" -> [result |-> "nil", output |-> input.value, err |-> "nil"]
    [] kind = "error" -> [result |-> "nil", output |-> "", err |-> "test error"]
    [] kind = "context" ->
         [result |-> "nil",
          output |-> IF "test-key" \in DOMAIN ctx THEN ctx["test-key"] ELSE "",
          err |-> "nil"]
    [] OTHER -> [result |-> "result", output |-> input.value, err |-> "nil"]

\* json.Marshal(v): the encoding of v, not v itself
Marshal(value) == <<"json", value>>

\* the attributes of the span at its start, and those added when payload
\* logging is enabled: the input if it encodes, the raw arguments if the
\* request has some
StartAttributes(toolName, enabled, r, input) ==
  LET named == KeyValue("mcp.tool.name", AttrString(toolName))
      withInput ==
        IF enabled /\ input.marshals
          THEN SetAttributes(named, KeyValue("mcp.tool.input",
                                             Attr("STRING", 0, "", Marshal(input.value))))
          ELSE named
  IN  IF enabled /\ ~r.nil /\ r.Arguments # ""
        THEN SetAttributes(withInput, KeyValue("mcp.tool.arguments",
                                               Attr("STRING", 0, "", Marshal(r.Arguments))))
        ELSE withInput

\* the attributes after the handler returned: the output only without an
\* error and with payload logging enabled
EndAttributes(attrs, enabled, returned) ==
  IF returned.err = "nil" /\ enabled
    THEN SetAttributes(attrs, KeyValue("mcp.tool.output",
                                       Attr("STRING", 0, "", Marshal(returned.output))))
    ELSE attrs

\* return result, output, err
Returned(returned) ==
  [result |-> returned.result, output |-> returned.output, err |-> returned.err]

NoReturn == [result |-> "nil", output |-> "", err |-> "nil"]

InitTool ==
  /\ NoLimiter
  /\ PipeIdle
  /\ ConfIdle
  /\ shutdown = <<>>
  /\ rlCfg = ZeroConfig
  /\ req = NoRequest
  /\ clientIP = EmptyString
  /\ logPayloads = FALSE
  /\ span = <<>>
  /\ served = <<>>
  /\ sent = EmptyString
  /\ hpc = "tool"
  /\ tool = [pc |-> "idle", logPayloadsEnabled |-> FALSE, calls |-> 0,
             kind |-> "success", ctx |-> Background, req |-> NilRequest,
             input |-> [value |-> "", marshals |-> TRUE],
             passed |-> Background, invoked |-> <<>>, held |-> NoReturn,
             ret |-> NoReturn, status |-> "Unset", ended |-> FALSE]

\* SetLogPayloads(enabled), between calls
SetLogPayloads ==
  /\ hpc = "tool"
  /\ tool.pc \in {"idle", "returned"}
  /\ \E enabled \in BOOLEAN : tool' = [tool EXCEPT !.logPayloadsEnabled = enabled]
  /\ UNCHANGED <<limiterVars, hpc, rlCfg, req, clientIP, logPayloads, span, served, sent,
                 pipeVars, confVars, shutdown>>

\* the handler TracedTool(toolName, handler) returns is called: the span is
\* started and its first attributes are set
ToolCall ==
  /\ hpc = "tool"
  /\ tool.pc \in {"idle", "returned"}
  /\ tool.calls < MaxToolCalls
  /\ \E kind \in HandlerKinds, ctx \in ContextInputs, r \in ToolRequests,
        input \in ToolInputs :
       /\ tool' = [tool EXCEPT !.pc = "started", !.calls = @ + 1, !.kind = kind,
                               !.ctx = ctx, !.req = r, !.input = input,
                               !.passed = Start(ctx, "tool/test_tool"),
                               !.invoked = <<>>, !.held = NoReturn, !.ret = NoReturn,
                               !.status = "Unset", !.ended = FALSE]
       /\ span' = StartAttributes("test_tool", tool.logPayloadsEnabled, r, input)
  /\ UNCHANGED <<limiterVars, hpc, rlCfg, req, clientIP, logPayloads, served, sent,
                 pipeVars, confVars, shutdown>>

\* result, output, err := handler(ctx, req, input)
ToolHandler ==
  /\ hpc = "tool"
  /\ tool.pc = "started"
  /\ tool' = [tool EXCEPT
                !.pc = "handled",
                !.invoked = Append(@, [ctx |-> tool.passed, req |-> tool.req,
                                       input |-> tool.input]),
                !.held = HandlerReturn(tool.kind, tool.passed, tool.req, tool.input)]
  /\ UNCHANGED <<limiterVars, hpc, rlCfg, req, clientIP, logPayloads, span, served, sent,
                 pipeVars, confVars, shutdown>>

\* the status of the span, the output attribute, the return and the deferred
\* span.End()
ToolReturn ==
  /\ hpc = "tool"
  /\ tool.pc = "handled"
  /\ tool' = [tool EXCEPT !.pc = "returned",
                          !.status = IF tool.held.err # "nil" THEN "Error" ELSE "Ok",
                          !.ret = Returned(tool.held),
                          !.ended = TRUE]
  /\ span' = EndAttributes(span, tool.logPayloadsEnabled, tool.held)
  /\ UNCHANGED <<limiterVars, hpc, rlCfg, req, clientIP, logPayloads, served, sent,
                 pipeVars, confVars, shutdown>>

NextTool == SetLogPayloads \/ ToolCall \/ ToolHandler \/ ToolReturn

SpecTool == InitTool /\ [][NextTool]_vars

\* ------------------------------------------------------------ package config
\* the longest API_KEYS value and the longest key presented
MaxKeysLen == 3
MaxKeyLen == 2

\* os.LookupEnv(key)
LookupEnv(key) ==
  IF key \in DOMAIN environ
    THEN [value |-> environ[key], exists |-> TRUE]
    ELSE [value |-> EmptyString, exists |-> FALSE]

\* getEnv(key, defaultValue)
getEnv(key, defaultValue) ==
  IF LookupEnv(key).exists THEN LookupEnv(key).value ELSE defaultValue

\* strings.ToLower, for the letters of the model's values
ToLower(value) ==
  LET lower(c) ==
        CASE c = "T" -> "t" [] c = "R" -> "r" [] c = "U" -> "u" [] c = "E" -> "e"
          [] c = "O" -> "o" [] c = "K" -> "k" [] OTHER -> c
  IN  [i \in 1 .. Len(value) |-> lower(value[i])]

\* (a variant that takes an unset variable as false)
getEnvBoolUnsetFalse(key, defaultValue) ==
  LookupEnv(key).exists /\ ToLower(LookupEnv(key).value) \in {<<"t", "r", "u", "e">>, <<"1">>}
\* getEnvBool(key, defaultValue)
getEnvBool(key, defaultValue) ==
  LET yes == {<<"t", "r", "u", "e">>, <<"1">>, <<"y", "e", "s">>, <<"o", "n">>}
      no == {<<"f", "a", "l", "s", "e">>, <<"0">>, <<"n", "o">>, <<"o", "f", "f">>}
  IN  IF ~LookupEnv(key).exists THEN defaultValue
      ELSE IF ToLower(LookupEnv(key).value) \in yes THEN TRUE
      ELSE IF ToLower(LookupEnv(key).value) \in no THEN FALSE
      ELSE defaultValue

\* strings.Split(s, sep) for a separator of one byte
RECURSIVE Split(_, _)
Split(s, sep) ==
  LET cut == splitFirst(s, sep)
  IN  IF cut.found THEN <<cut.before>> \o Split(cut.after, sep) ELSE <<s>>

\* strings.TrimSpace: the only white space of the model's alphabet is the space
TrimSpace(s) == trimSpace(s)

\* (a variant that keeps the pieces untrimmed)
AppendTrimmedRaw(apiKeys, pieces) == apiKeys \o pieces
\* the loop of New over the pieces of API_KEYS: a piece that is not empty
\* after trimming is appended, trimmed
RECURSIVE AppendTrimmed(_, _)
AppendTrimmed(apiKeys, pieces) ==
  IF pieces = <<>> THEN apiKeys
  ELSE LET trimmed == TrimSpace(Head(pieces))
       IN  AppendTrimmed(IF trimmed # EmptyString THEN Append(apiKeys, trimmed) ELSE apiKeys,
                         Tail(pieces))

\* the API keys New stores
ParseAPIKeys(keysStr) ==
  IF keysStr # EmptyString THEN AppendTrimmed(<<>>, Split(keysStr, ",")) ELSE <<>>

\* (a variant that compares without regard to case)
ConstantTimeCompareFold(x, y) ==
  LET fold(z) == [i \in 1 .. Len(z) |-> IF z[i] = "K" THEN "k" ELSE z[i]]
  IN  IF fold(x) = fold(y) THEN 1 ELSE 0
\* subtle.ConstantTimeCompare(x, y): 1 when x and y have the same length and
\* the same bytes, 0 otherwise
ConstantTimeCompare(x, y) ==
  IF Len(x) = Len(y) /\ \A i \in 1 .. Len(x) : x[i] = y[i] THEN 1 ELSE 0

\* (a variant that returns at the first match)
RECURSIVE ValidateLoopEarlyReturn(_, _, _, _)
ValidateLoopEarlyReturn(apiKeys, key, valid, compared) ==
  IF apiKeys = <<>> THEN [valid |-> valid, compared |-> compared]
  ELSE IF ConstantTimeCompare(key, Head(apiKeys)) = 1
    THEN [valid |-> TRUE, compared |-> compared + 1]
    ELSE ValidateLoopEarlyReturn(Tail(apiKeys), key, valid, compared + 1)
\* the loop of ValidateAPIKey over the stored keys that are left, entered with
\* `valid`; compared counts the calls of ConstantTimeCompare
RECURSIVE ValidateLoop(_, _, _, _)
ValidateLoop(apiKeys, key, valid, compared) ==
  IF apiKeys = <<>> THEN [valid |-> valid, compared |-> compared]
  ELSE ValidateLoop(Tail(apiKeys), key,
                    IF ConstantTimeCompare(key, Head(apiKeys)) = 1 THEN TRUE ELSE valid,
                    compared + 1)

\* c.ValidateAPIKey(key)
ValidateAPIKey(apiKeys, key) == ValidateLoop(apiKeys, key, FALSE, 0).valid

\* the environments the process is started in: API_KEYS, AUTH_ENABLED and
\* RATE_LIMIT_ENABLED are each unset or set
EnvInputs ==
  LET keysStr == Strings({"k", "K", ",", " "}, MaxKeysLen)
      flags == {<<"t", "r", "u", "e">>, <<"T", "R", "U", "E">>, <<"1">>,
                <<"f", "a", "l", "s", "e">>, <<"O", "f", "f">>, EmptyString, <<"x">>}
      names == SUBSET {"API_KEYS", "AUTH_ENABLED", "RATE_LIMIT_ENABLED"}
  IN  UNION {{e \in [ns -> keysStr \cup flags] :
                \A n \in ns : e[n] \in (IF n = "API_KEYS" THEN keysStr ELSE flags)} :
             ns \in names}

\* the process before main calls config.New
InitConfig ==
  /\ NoLimiter
  /\ PipeIdle
  /\ rlCfg = ZeroConfig
  /\ req = NoRequest
  /\ clientIP = EmptyString
  /\ logPayloads = FALSE
  /\ span = <<>>
  /\ served = <<>>
  /\ sent = EmptyString
  /\ environ \in EnvInputs
  /\ validated = NoValidation
  /\ ToolIdle
  /\ hpc = "main"

\* the Config New builds from the environment
NewConfig ==
  [AuthEnabled |-> getEnvBool("AUTH_ENABLED", FALSE),
   RateLimitEnabled |-> getEnvBool("RATE_LIMIT_ENABLED", TRUE),
   apiKeys |-> ParseAPIKeys(getEnv("API_KEYS", EmptyString))]

\* cfg := config.New()
New ==
  /\ hpc = "main"
  /\ appCfg' = NewConfig
  /\ hpc' = "configured"
  /\ UNCHANGED <<limiterVars, rlCfg, req, clientIP, logPayloads, span, served, sent,
                 visited, reply, handled, confVars, toolVars>>

\* a call of cfg.ValidateAPIKey(key)
Validate ==
  /\ hpc \in {"configured", "validated"}
  /\ \E key \in Strings({"k", "K", " "}, MaxKeyLen) :
       validated' = [key |-> key] @@ ValidateLoop(appCfg.apiKeys, key, FALSE, 0)
  /\ hpc' = "validated"
  /\ UNCHANGED <<limiterVars, rlCfg, req, clientIP, logPayloads, span, served, sent,
                 pipeVars, environ, toolVars>>

NextConfig == New \/ Validate

SpecConfig == InitConfig /\ [][NextConfig]_vars

\* ------------------------------------------------- the handler chain of main
\* the server answers one request more than the largest burst
MaxRequests == MaxBurst + 1

\* (a variant that puts authentication outside the introspector)
HandlerChainAuthFirst(cfg) ==
  <<"otelhttp">>
    \o (IF cfg.RateLimitEnabled THEN <<"ratelimit">> ELSE <<>>)
    \o (IF cfg.AuthEnabled THEN <<"auth">> ELSE <<>>)
    \o <<"tracing", "metrics", "mux">>
\* (a variant that never wraps the mux in authentication)
HandlerChainNoAuth(cfg) ==
  <<"otelhttp">>
    \o (IF cfg.RateLimitEnabled THEN <<"ratelimit">> ELSE <<>>)
    \o <<"tracing", "metrics", "mux">>
\* (a variant that puts the limiter inside authentication)
HandlerChainLimitLast(cfg) ==
  <<"otelhttp", "tracing", "metrics">>
    \o (IF cfg.AuthEnabled THEN <<"auth">> ELSE <<>>)
    \o (IF cfg.RateLimitEnabled THEN <<"ratelimit">> ELSE <<>>)
    \o <<"mux">>
\* (a variant that authenticates before it meters)
HandlerChainAuthOutermost(cfg) ==
  <<"otelhttp">>
    \o (IF cfg.AuthEnabled THEN <<"auth">> ELSE <<>>)
    \o (IF cfg.RateLimitEnabled THEN <<"ratelimit">> ELSE <<>>)
    \o <<"tracing", "metrics", "mux">>
\* (a variant that puts the metrics outside the limiter)
HandlerChainMetricsFirst(cfg) ==
  <<"otelhttp", "tracing", "metrics">>
    \o (IF cfg.RateLimitEnabled THEN <<"ratelimit">> ELSE <<>>)
    \o (IF cfg.AuthEnabled THEN <<"auth">> ELSE <<>>)
    \o <<"mux">>
\* the chain main builds, outermost handler first: main starts from the mux
\* and wraps it in AuthMiddleware (if enabled), MetricsMiddleware,
\* MCPTracingMiddleware, the limiter's Middleware (if enabled) and otelhttp
HandlerChain(cfg) ==
  LET mux == <<"mux">>
      authed == IF cfg.AuthEnabled THEN <<"auth">> \o mux ELSE mux
      traced == <<"tracing", "metrics">> \o authed
      limited == IF cfg.RateLimitEnabled THEN <<"ratelimit">> \o traced ELSE traced
  IN  <<"otelhttp">> \o limited

\* the handler of the chain the request is about to enter
AtHandler(name) ==
  /\ hpc = "chain"
  /\ HandlerChain(appCfg)[Len(visited) + 1] = name

\* the paths the model sends
Paths == {"/mcp", "/mcp/", "/mcp/x", "/mcpx", "/health", "/metrics"}
\* (a variant under which every path has every prefix)
HasPrefixAlways(path, prefix) == path \in Paths
\* strings.HasPrefix(path, prefix), for the paths the model sends and the
\* prefixes main uses
HasPrefix(path, prefix) ==
  \/ prefix = "/mcp" /\ path \in {"/mcp", "/mcp/", "/mcp/x", "/mcpx"}
  \/ prefix = "/mcp/" /\ path \in {"/mcp/", "/mcp/x"}
\* protectedPrefixes := []string{"/mcp"}
protectedPrefixes == {"/mcp"}

\* the response of AuthMiddleware to a request of a protected path: 401 for a
\* missing and for an invalid key, nothing when the key is valid
Unauthorized(message) ==
  [status |-> 401, contentType |-> "application/json", retryAfter |-> "",
   body |-> << <<"error", message>>, "\n" >>]
AuthResponse(cfg, r) ==
  LET key == HeaderGet(r.Header, "X-API-Key")
      protected == \E prefix \in protectedPrefixes : HasPrefix(r.Path, prefix)
  IN  IF ~protected THEN NoResponse
      ELSE IF key = EmptyString THEN Unauthorized("missing API key")
      ELSE IF ~ValidateAPIKey(cfg.apiKeys, key) THEN Unauthorized("invalid API key")
      ELSE NoResponse

\* the handler the mux dispatches to: the patterns are GET /health,
\* GET /metrics, /mcp and the subtree /mcp/
MuxHandler(r) ==
  IF r.Path = "/mcp" \/ HasPrefix(r.Path, "/mcp/") THEN "mcp"
  ELSE IF r.Path \in {"/health", "/metrics"}
    THEN IF r.Method = "GET" THEN r.Path ELSE "405"
    ELSE "404"
\* the status the mux answers with
MuxStatus(r) ==
  CASE MuxHandler(r) = "405" -> 405
    [] MuxHandler(r) = "404" -> 404
    [] OTHER -> 200

\* how a request ended
Outcome ==
  CASE reply.status = 0 -> "pending"
    [] reply.status = StatusTooManyRequests -> "Denied"
    [] reply.status = 401 -> "Unauthorized"
    [] OTHER -> "Completed"

\* the requests sent to the server
PipelineInputs ==
  LET keys == {EmptyString, <<"k">>, <<"z">>}
      header(k, x) ==
        [h \in (IF k = EmptyString THEN {} ELSE {"X-API-Key"})
               \cup (IF x = EmptyString THEN {} ELSE {"X-Real-IP"}) |->
           IF h = "X-API-Key" THEN k ELSE x]
  IN  {[Method |-> m, Path |-> p, Header |-> header(k, x), RemoteAddr |-> <<"c", ":", "c">>,
        Body |-> Reader(b)] :
         m \in {"POST", "GET"}, p \in Paths, k \in keys,
         x \in {EmptyString, <<"b">>},
         b \in {EmptyString,
                << [Piece("object") EXCEPT !.jsonrpc = "2.0", !.method = "ping"] >>}}

\* the environments the server is started in: API_KEYS holds one key,
\* AUTH_ENABLED and RATE_LIMIT_ENABLED are unset or set
PipelineEnvs ==
  {e \in EnvInputs :
     /\ "API_KEYS" \in DOMAIN e /\ e["API_KEYS"] = <<"k">>
     /\ "AUTH_ENABLED" \in DOMAIN e => e["AUTH_ENABLED"] = <<"1">>
     /\ "RATE_LIMIT_ENABLED" \in DOMAIN e =>
          e["RATE_LIMIT_ENABLED"] \in {<<"O", "f", "f">>, <<"x">>}}

\* main up to srv.ListenAndServe: the configuration config.New loads, and the
\* limiter NewRateLimiter builds from the rate and the burst when rate limiting
\* is enabled
InitPipeline ==
  /\ environ \in PipelineEnvs
  /\ validated = NoValidation
  /\ ToolIdle
  /\ appCfg = NewConfig
  /\ IF appCfg.RateLimitEnabled
       THEN /\ rlCfg \in [RequestsPerSecond : {1}, BurstSize : 1 .. MaxBurst,
                            CleanupInterval : {0}]
            /\ rate = WithDefaults(rlCfg).RequestsPerSecond
            /\ burst = WithDefaults(rlCfg).BurstSize
            /\ cleanupInt = WithDefaults(rlCfg).CleanupInterval
            /\ workload = OneClient
            /\ stopClosed = FALSE
            /\ stopCalls = 0
            /\ crashed = FALSE
            /\ Fresh
       ELSE rlCfg = ZeroConfig /\ NoLimiter
  /\ hpc = "idle"
  /\ req = NoRequest
  /\ clientIP = EmptyString
  /\ logPayloads = FALSE
  /\ span = <<>>
  /\ served = <<>>
  /\ sent = EmptyString
  /\ visited = <<>>
  /\ reply = NoResponse
  /\ handled = 0

\* the server accepts a request
Receive ==
  /\ hpc = "idle"
  /\ handled < MaxRequests
  /\ req' \in PipelineInputs
  /\ sent' = req'.Body.data
  /\ clientIP' = EmptyString
  /\ span' = <<>>
  /\ served' = <<>>
  /\ visited' = <<>>
  /\ reply' = NoResponse
  /\ hpc' = "chain"
  /\ UNCHANGED <<limiterVars, rlCfg, logPayloads, appCfg, handled, confVars, toolVars>>

\* the handler has written the response: the request is answered
Answer(response) ==
  /\ reply' = response
  /\ hpc' = "idle"
  /\ handled' = handled + 1

\* the handler calls next.ServeHTTP
CallNext == UNCHANGED <<reply, hpc, handled>>

\* otelhttp.NewHandler: starts the request's span and calls the next handler
OtelHTTP ==
  /\ AtHandler("otelhttp")
  /\ visited' = Append(visited, "otelhttp")
  /\ CallNext
  /\ UNCHANGED <<limiterVars, rlCfg, req, clientIP, logPayloads, span, served, sent,
               appCfg, confVars, toolVars>>

\* rateLimiter.Middleware: extractIP, Allow, and the denial or the next handler
RateLimit ==
  /\ AtHandler("ratelimit")
  /\ visited' = Append(visited, "ratelimit")
  /\ LET ip == extractIP(req)
         a == AllowSeq(clients, ip, Now)
         o == MiddlewareOutcome(a.ok)
     IN  /\ clientIP' = ip
         /\ clients' = Put(clients, ip, a.bucket)
         /\ IF o.next = 0 THEN Answer(o.resp) ELSE CallNext
  /\ UNCHANGED <<cfgVars, mu, sweepVars, stopVars, callVars, histVars>>
  /\ UNCHANGED <<rlCfg, req, logPayloads, span, served, sent, appCfg, confVars, toolVars>>

\* MCPTracingMiddleware
Tracing ==
  /\ AtHandler("tracing")
  /\ visited' = Append(visited, "tracing")
  /\ LET out == Introspect(logPayloads, req, span)
     IN  /\ req' = out.req
         /\ span' = out.span
  /\ CallNext
  /\ UNCHANGED <<limiterVars, rlCfg, clientIP, logPayloads, served, sent, appCfg, confVars, toolVars>>

\* MetricsMiddleware: calls the next handler and records what it answered
Metrics ==
  /\ AtHandler("metrics")
  /\ visited' = Append(visited, "metrics")
  /\ CallNext
  /\ UNCHANGED <<limiterVars, rlCfg, req, clientIP, logPayloads, span, served, sent,
               appCfg, confVars, toolVars>>

\* AuthMiddleware(cfg, {"/mcp"})
Auth ==
  /\ AtHandler("auth")
  /\ visited' = Append(visited, "auth")
  /\ LET response == AuthResponse(appCfg, req)
     IN  IF response.status # 0 THEN Answer(response) ELSE CallNext
  /\ UNCHANGED <<limiterVars, rlCfg, req, clientIP, logPayloads, span, served, sent,
               appCfg, confVars, toolVars>>

\* the mux dispatches the request to its handler, which reads the body and
\* answers
Mux ==
  /\ AtHandler("mux")
  /\ visited' = Append(visited, "mux")
  /\ LET read == ReadAll(req.Body)
     IN  /\ served' = Append(served, [Method |-> req.Method, Path |-> req.Path,
                                       body |-> read.bytes, err |-> read.err])
         /\ req' = [req EXCEPT !.Body = read.body]
  /\ Answer([NoResponse EXCEPT !.status = MuxStatus(req)])
  /\ UNCHANGED <<limiterVars, rlCfg, clientIP, logPayloads, span, sent, appCfg, confVars, toolVars>>

NextPipeline == Receive \/ OtelHTTP \/ RateLimit \/ Tracing \/ Metrics \/ Auth \/ Mux

SpecPipeline == InitPipeline /\ [][NextPipeline]_vars

\* ------------------------------------------------------- the shutdown of main
\* cfg.MCPTransport, and the transports for which main serves MCP over HTTP
MCPTransport == getEnv("MCP_TRANSPORT", <<"s", "t", "d", "i", "o">>)
HTTPTransport == MCPTransport \in {<<"s", "s", "e">>, <<"h", "t", "t", "p">>}

\* rateLimiter != nil: main builds the limiter in the HTTP transport only, and
\* only when rate limiting is enabled
RateLimiterBuilt == HTTPTransport /\ appCfg.RateLimitEnabled

\* (a variant with a deferred rateLimiter.Stop() on top of the explicit one)
ShutdownCallsStopTwice ==
  <<"srv.Shutdown">>
    \o (IF RateLimiterBuilt THEN <<"rateLimiter.Stop", "rateLimiter.Stop">> ELSE <<>>)
\* the calls main makes once the signal has arrived, in order
ShutdownCalls ==
  <<"srv.Shutdown">> \o (IF RateLimiterBuilt THEN <<"rateLimiter.Stop">> ELSE <<>>)

\* the environments main starts in
MainEnvs ==
  LET values(n) == IF n = "MCP_TRANSPORT"
                     THEN {<<"h", "t", "t", "p">>, <<"s", "s", "e">>, <<"s", "t", "d", "i", "o">>}
                     ELSE {<<"1">>, <<"O", "f", "f">>}
  IN  UNION {{e \in [names -> UNION {values(n) : n \in names}] :
                \A n \in names : e[n] \in values(n)} :
             names \in SUBSET {"MCP_TRANSPORT", "RATE_LIMIT_ENABLED"}}

\* main up to the wait for the signal: the configuration is loaded, the
\* limiter is built if the transport and the configuration ask for one, and
\* the HTTP server has been started
InitMain ==
  /\ environ \in MainEnvs
  /\ validated = NoValidation
  /\ ToolIdle
  /\ appCfg = NewConfig
  /\ IF RateLimiterBuilt
       THEN /\ rlCfg \in [RequestsPerSecond : {1}, BurstSize : 1 .. MaxBurst,
                            CleanupInterval : {0}]
            /\ rate = WithDefaults(rlCfg).RequestsPerSecond
            /\ burst = WithDefaults(rlCfg).BurstSize
            /\ cleanupInt = WithDefaults(rlCfg).CleanupInterval
            /\ workload = OneClient
            /\ stopClosed = FALSE
            /\ stopCalls = 0
            /\ crashed = FALSE
            /\ Fresh
       ELSE rlCfg = ZeroConfig /\ NoLimiter
  /\ hpc = "serving"
  /\ req = NoRequest
  /\ clientIP = EmptyString
  /\ logPayloads = FALSE
  /\ span = <<>>
  /\ served = <<>>
  /\ sent = EmptyString
  /\ visited = <<>>
  /\ reply = NoResponse
  /\ handled = 0

\* the process is running
MainRunning == hpc \in {"serving", "signalled"} /\ ~crashed

\* <-ctx.Done(); stop()
Signal ==
  /\ hpc = "serving" /\ ~crashed
  /\ hpc' = "signalled"
  /\ UNCHANGED <<limiterVars, rlCfg, req, clientIP, logPayloads, span, served, sent,
                 pipeVars, confVars, toolVars>>

\* srv.ListenAndServe fails in the HTTP transport: os.Exit(1)
ListenFails ==
  /\ hpc = "serving" /\ ~crashed
  /\ HTTPTransport
  /\ hpc' = "exit"
  /\ UNCHANGED <<limiterVars, rlCfg, req, clientIP, logPayloads, span, served, sent,
                 pipeVars, confVars, toolVars>>

\* the next call of the shutdown: srv.Shutdown(shutdownCtx), whose error is
\* only logged, or rateLimiter.Stop()
ShutdownCall ==
  /\ hpc = "signalled" /\ ~crashed
  /\ Len(shutdown) < Len(ShutdownCalls)
  /\ shutdown' = Append(shutdown, ShutdownCalls[Len(shutdown) + 1])
  /\ IF ShutdownCalls[Len(shutdown) + 1] = "rateLimiter.Stop"
       THEN Stop
       ELSE UNCHANGED limiterVars
  /\ UNCHANGED <<hpc, rlCfg, req, clientIP, logPayloads, span, served, sent,
                 pipeVars, confVars, tool>>

\* "server shutdown complete": main returns
MainReturns ==
  /\ hpc = "signalled" /\ ~crashed
  /\ Len(shutdown) = Len(ShutdownCalls)
  /\ hpc' = "complete"
  /\ UNCHANGED <<limiterVars, rlCfg, req, clientIP, logPayloads, span, served, sent,
                 pipeVars, confVars, toolVars>>

\* the requests in flight and the cleanup goroutine run beside main for as
\* long as the process does; the clock is not advanced in this specification
NextMain ==
  \/ Signal
  \/ ListenFails
  \/ ShutdownCall
  \/ MainReturns
  \/ MainRunning /\ RateLimiterBuilt /\ UNCHANGED httpVars /\ Request
  \/ MainRunning /\ RateLimiterBuilt /\ UNCHANGED httpVars /\ Sweep

SpecMain == InitMain /\ [][NextMain]_vars

\* ------------------------------------------------------------------ claims
\* the step in which goroutine t's Allow writes and returns
AllowReturns(t) == pc[t] = "commit" /\ pc'[t] = "done"

\* the step in which the sweep runs its loop over the table
SweepRuns == sweepPc = "sweeping" /\ sweepPc' = "select"

Idle(table, ip) == Now - table[ip].lastCheck

\* C1: counting the Allow calls made on an entry since the call that created
\* it, none of them with any elapsed time, calls 1 .. burst return true and
\* call burst + 1 (and every later one) returns false.
C1_BurstThenDeny ==
  [][\A t \in Procs :
       AllowReturns(t) =>
         LET k == zeroCalls'[reqIp[t]]
         IN  k > 0 => (result'[t] <=> k <= burst)]_vars

\* the (burst+1)-th immediate call on a fresh identity has been denied, after
\* burst admitted ones, with the largest burst
C1_Witness ==
  \E t \in Procs :
    /\ pc[t] = "done" /\ ~result[t]
    /\ burst = MaxBurst
    /\ zeroCalls[reqIp[t]] = burst + 1
    /\ zeroGranted[reqIp[t]] = burst

\* C2: a request whose Allow returned false got 429, Retry-After: 1 and the
\* JSON body {"error":"rate limit exceeded"} and its inner handler was not
\* invoked; a request whose Allow returned true had its inner handler invoked
\* exactly once and nothing written by the middleware.
C2_MiddlewareResponse ==
  \A t \in Procs :
    pc[t] = "done" =>
      IF result[t]
        THEN nextCalls[t] = 1 /\ resp[t] = NoResponse
        ELSE /\ nextCalls[t] = 0
             /\ resp[t].status = 429
             /\ resp[t].retryAfter = "1"
             /\ resp[t].body[1] = <<"error", "rate limit exceeded">>

\* one request has been denied with 429 and another passed to its handler
C2_Witness ==
  \E t, u \in Procs :
    /\ pc[t] = "done" /\ ~result[t] /\ resp[t].status = 429 /\ nextCalls[t] = 0
    /\ pc[u] = "done" /\ result[u] /\ nextCalls[u] = 1

\* C3: every bucket of the table holds between 0 and burst tokens and a time
\* that is not in the future, and no step lowers a bucket's lastCheck (a tick
\* of the clock makes it one tick older, an Allow replaces it by a time that
\* is not earlier).
C3_TokensInRange ==
  \A ip \in DOMAIN clients :
    /\ 0 <= clients[ip].tokens
    /\ clients[ip].tokens <= burst * TokenUnit
    /\ clients[ip].lastCheck <= Now

C3_LastCheckMonotone ==
  \A ip \in DOMAIN clients \cap DOMAIN clients' :
    /\ clients'[ip].lastCheck >= Older(clients[ip].lastCheck)
    /\ \A t \in Procs :
         AllowReturns(t) /\ reqIp[t] = ip =>
           clients'[ip].lastCheck >= clients[ip].lastCheck

C3_BucketInvariant == [](C3_TokensInRange) /\ [][C3_LastCheckMonotone]_vars

\* a bucket that a later Allow refilled up to the burst and took a token from
C3_Witness ==
  \E ip \in DOMAIN clients :
    /\ lastOutcome[ip] = "readmit"
    /\ burst = MaxBurst
    /\ clients[ip].tokens = burst * TokenUnit - TokenUnit

\* C4: an Allow on identity X leaves the entry of every other identity as it
\* was (present or absent, same fields), and its result is the one Allow
\* gives on a table that holds X's entry alone.
C4_IdentityIndependence ==
  [][\A t \in Procs :
       AllowReturns(t) =>
         LET x == reqIp[t]
             own == [i \in DOMAIN clients \cap {x} |-> clients[i]]
         IN  /\ \A y \in Identities \ {x} :
                  /\ y \in DOMAIN clients' <=> y \in DOMAIN clients
                  /\ y \in DOMAIN clients => clients'[y] = clients[y]
             /\ result'[t] = AllowSeq(own, x, local[t].now).ok]_vars

\* x's bucket is exhausted (its last call was denied) and the call for y that
\* followed was admitted
C4_Witness ==
  /\ lastOutcome["x"] = "deny"
  /\ pc[1] = "done" /\ reqIp[1] = "y" /\ result[1]
  /\ clients["y"].lastCheck >= clients["x"].lastCheck

\* C5: the table always equals the table of a limiter that runs the same
\* Allow calls one at a time, in the order in which they took the mutex and
\* with the times they read; and of n calls made on a fresh entry with no
\* elapsed time exactly min(n, burst) are admitted.
C5_Linearized ==
  /\ clients = seqClients
  /\ \A ip \in Identities :
       zeroCalls[ip] > 0 => zeroGranted[ip] = Min(zeroCalls[ip], burst)

\* two goroutines called Allow for the same fresh identity, burst 1: one was
\* admitted and one denied
C5_Witness ==
  /\ burst = 1
  /\ pc[1] = "done" /\ pc[2] = "done"
  /\ reqIp[1] = reqIp[2]
  /\ result[1] # result[2]
  /\ zeroCalls[reqIp[1]] = 2 /\ zeroGranted[reqIp[1]] = 1

\* C6: an Allow that finds the entry's last call denied, and reads a time
\* 1/rate or more after the time that denied call read, returns true.
C6_Replenished ==
  [][\A t \in Procs :
       AllowReturns(t) =>
         LET ip == reqIp[t]
         IN  ( /\ local[t].exists
               /\ lastOutcome[ip] = "deny"
               /\ (local[t].now - lastAllowAt[ip]) * rate >= TokenUnit )
             => result'[t]]_vars

\* burst 1: the call after the denied one, made 1/rate later, was admitted
C6_Witness ==
  \E t \in Procs :
    /\ burst = 1
    /\ pc[t] = "done" /\ result[t]
    /\ lastOutcome[reqIp[t]] = "readmit"

\* C7: calling Stop() again never crashes the process.
C7_StopIdempotent == ~crashed

\* C8: once rl.stopClean is closed the sweep goroutine eventually exits, and
\* after it has exited no step of the running process removes an entry.
C8_NoRemovalAfterExit ==
  (sweepPc = "exited" /\ ~crashed') => DOMAIN clients \subseteq DOMAIN clients'

C8_StopTerminatesSweep ==
  /\ stopClosed ~> (sweepPc = "exited")
  /\ [][C8_NoRemovalAfterExit]_vars

\* the sweep has exited, an entry idle for more than 2 x cleanupInt is still
\* in the table, and requests are still denied and admitted
C8_Witness ==
  /\ sweepPc = "exited" /\ ~crashed
  /\ \E ip \in DOMAIN clients : Idle(clients, ip) > 2 * cleanupInt
  /\ \E t, u \in Procs :
       /\ pc[t] = "done" /\ ~result[t]
       /\ pc[u] = "done" /\ result[u]

\* C9: when the sweep runs at the instant of each tick, every run removes
\* every entry idle for more than 2 x cleanupInt, and while Stop() has not
\* been called no entry of the table is idle for more than 3 x cleanupInt.
C9_RemovesStale ==
  SweepRuns =>
    \A ip \in DOMAIN clients :
      Idle(clients, ip) > 2 * cleanupInt => ip \notin DOMAIN clients'

C9_IdleBound ==
  ~stopClosed => \A ip \in DOMAIN clients : Idle(clients, ip) <= 3 * cleanupInt

C10_RemovedOnlyIfStale ==
  [][\A ip \in DOMAIN clients :
       (ip \notin DOMAIN clients' /\ ~crashed') =>
         SweepRuns /\ Idle(clients, ip) > 2 * cleanupInt]_vars

\* the ticker has just fired, the sweep has run, and an entry idle for exactly
\* 2 x cleanupInt is still in the table
C10_Witness ==
  /\ ~stopClosed
  /\ sweepPc = "select" /\ ~tickPending /\ nextTick = cleanupInt
  /\ cleanupInt = MaxInterval
  /\ \E ip \in DOMAIN clients : Idle(clients, ip) = 2 * cleanupInt

FirstEntryOf(e, s) ==
  /\ Len(e) <= Len(s)
  /\ e = SubSeq(s, 1, Len(e))
  /\ \A i \in 1 .. Len(e) : e[i] # ","
  /\ Len(e) < Len(s) => s[Len(e) + 1] = ","

\* t is s without its surrounding whitespace
TrimmedOf(t, s) ==
  /\ \E a, b \in 0 .. Len(s) :
       /\ a + b <= Len(s)
       /\ t = SubSeq(s, a + 1, Len(s) - b)
       /\ \A i \in 1 .. a : s[i] \in {" ", "\t"}
       /\ \A i \in Len(s) - b + 1 .. Len(s) : s[i] \in {" ", "\t"}
  /\ t # <<>> => t[1] \notin {" ", "\t"} /\ t[Len(t)] \notin {" ", "\t"}

\* the number of colons of s
Colons(s) == Cardinality({i \in 1 .. Len(s) : s[i] = ":"})

\* a header is present when the request carries a non-empty value for it
Present(key) == key \in DOMAIN req.Header /\ req.Header[key] # <<>>

\* C12: the identity is the trimmed first comma-delimited entry of
\* X-Forwarded-For when that header is present; else the trimmed X-Real-IP when
\* that header is present; else the host of the peer address when it is
\* host:port, and the peer address itself when it has no port.
C12_Precedence ==
  hpc = "resolved" =>
    IF Present("X-Forwarded-For")
      THEN \E e \in Strings({"a", " ", ","}, MaxStrLen) :
             /\ FirstEntryOf(e, req.Header["X-Forwarded-For"])
             /\ TrimmedOf(clientIP, e)
      ELSE IF Present("X-Real-IP")
        THEN TrimmedOf(clientIP, req.Header["X-Real-IP"])
        ELSE /\ Colons(req.RemoteAddr) = 0 => clientIP = req.RemoteAddr
             /\ Colons(req.RemoteAddr) = 1 =>
                  \E port \in Strings({"c"}, MaxStrLen) :
                    req.RemoteAddr = clientIP \o <<":">> \o port

\* X-Forwarded-For with a padded first entry and a second one wins over an
\* X-Real-IP that is present too
C12_Witness ==
  /\ hpc = "resolved"
  /\ Present("X-Real-IP")
  /\ Present("X-Forwarded-For")
  /\ req.Header["X-Forwarded-For"] = <<"a", " ", ",">>
  /\ clientIP = <<"a">>

\* what the claims on the introspector say of a request, stated on the bytes
\* sent and without the code's operators
\* the request is one the introspector applies to
ToEndpoint == req.Method = "POST" /\ req.Path \in {"/mcp", "/mcp/"}

\* the handler has reached its call of next.ServeHTTP
Introspected == hpc \in {"next", "done"}

\* the JSON value of the body sent, when it is one value between spaces
\* (Space when there is no such value)
SentValue ==
  IF Cardinality({i \in 1 .. Len(sent) : sent[i].kind # "space"}) = 1
    THEN sent[CHOOSE i \in 1 .. Len(sent) : sent[i].kind # "space"]
    ELSE Space

\* the body sent decodes as an mcpRequest: one JSON value that is an object,
\* or null, which decodes to the request without any member
ParsesAsEnvelope == SentValue.kind \in {"object", "null"}

\* the body sent is longer than the introspector reads
OverCap == Len(sent) > maxBodySize

\* the keys of the metadata attributes
MetadataKeys ==
  {"mcp.jsonrpc.version", "mcp.method", "mcp.request.id", "mcp.tool.name",
   "mcp.tool.arguments", "mcp.request.payload"}

\* the next handler was called once and read exactly the bytes sent
ServedIntact ==
  /\ Len(served) = 1
  /\ served[1].body = sent
  /\ served[1].err = ""

\* C13: for every body sent with a POST to /mcp or /mcp/, of whatever size
\* and whether or not it parses, the bytes the next handler reads from the
\* request are the bytes sent.
C13_BodyRoundTrip == (ToEndpoint /\ hpc = "done") => ServedIntact

\* C14: when the body of a POST to /mcp is longer than the cap, the
\* introspector records mcp.request.body_too_large = true and calls the next
\* handler with the request unmodified.
C14_OverCapRecorded ==
  (ToEndpoint /\ OverCap /\ Introspected) =>
    /\ "mcp.request.body_too_large" \in DOMAIN span
    /\ span["mcp.request.body_too_large"].int = 1
    /\ hpc = "next" => req.Body = [data |-> sent, limit |-> -1, err |-> ""]
    /\ hpc = "done" => ServedIntact

\* C15: a request that is not a POST, or whose path is neither /mcp nor
\* /mcp/, gets no attribute, its body is neither read nor replaced, and next is
\* called exactly once with it.
C15_PassThrough ==
  ~ToEndpoint =>
    /\ span = <<>>
    /\ hpc = "next" => req.Body = [data |-> sent, limit |-> -1, err |-> ""]
    /\ hpc = "next" => served = <<>>
    /\ hpc = "done" => ServedIntact /\ served[1].Method = req.Method
                                    /\ served[1].Path = req.Path

\* a GET to /mcp with a tools/call in its body went through untouched
C15_Witness ==
  /\ hpc = "done"
  /\ req.Method = "GET"
  /\ req.Path = "/mcp"
  /\ SentValue.kind = "object"
  /\ SentValue.method = "tools/call"
  /\ span = <<>>
  /\ Len(served) = 1

\* C16: when the body of a POST to /mcp does not parse as an envelope (an
\* empty body included), none of the metadata attributes is recorded, payload
\* logging enabled or not, and the next handler is called exactly once.
C16_ParseFailureSilent ==
  (ToEndpoint /\ ~ParsesAsEnvelope) =>
    /\ DOMAIN span \cap MetadataKeys = {}
    /\ hpc = "next" => served = <<>>
    /\ hpc = "done" => Len(served) = 1

\* an empty body, and text that is not JSON, with payload logging enabled
C16_Witness ==
  /\ hpc = "done"
  /\ ToEndpoint
  /\ logPayloads
  /\ sent = <<>> \/ (SentValue.kind = "invalid" /\ Len(sent) <= maxBodySize)
  /\ span = <<>>
  /\ ServedIntact

\* b differs from the body sent at most in the arguments of its tools/call
DiffersInArgumentsOnly(b) ==
  /\ Len(b) = Len(sent)
  /\ \A i \in 1 .. Len(b) :
       \/ b[i] = sent[i]
       \/ /\ b[i].kind = "object"
          /\ b[i].params.kind = "object"
          /\ sent[i] = [b[i] EXCEPT !.params.arguments = sent[i].params.arguments]

C18_IdNative ==
  (ToEndpoint /\ ~OverCap /\ SentValue.kind = "object" /\ Introspected) =>
    /\ "mcp.jsonrpc.version" \in DOMAIN span
    /\ span["mcp.jsonrpc.version"].str = SentValue.jsonrpc
    /\ "mcp.method" \in DOMAIN span
    /\ span["mcp.method"].str = SentValue.method
    /\ "mcp.request.id" \in DOMAIN span <=> SentValue.id.type \in {"number", "string"}
    /\ SentValue.id.type = "number" =>
         /\ span["mcp.request.id"].type \in {"INT64", "FLOAT64"}
         /\ 2 * span["mcp.request.id"].int = SentValue.id.twice
    /\ SentValue.id.type = "string" =>
         /\ span["mcp.request.id"].type = "STRING"
         /\ span["mcp.request.id"].str = SentValue.id.str

\* C19: with payload logging enabled the payload recorded for a parsed body
\* is the body when it is at most the payload limit long, and its first
\* bytes up to the limit followed by the truncation marker when it is
\* longer; the body the next handler reads is the whole body either way.
C19_PayloadTruncated ==
  (logPayloads /\ ToEndpoint /\ ~OverCap /\ ParsesAsEnvelope /\ Introspected) =>
    /\ "mcp.request.payload" \in DOMAIN span
    /\ Len(sent) <= maxPayloadLen => span["mcp.request.payload"].bytes = sent
    /\ Len(sent) > maxPayloadLen =>
         span["mcp.request.payload"].bytes =
           [i \in 1 .. maxPayloadLen + 1 |->
              IF i <= maxPayloadLen THEN sent[i] ELSE Piece("...(truncated)")]
    /\ hpc = "done" => ServedIntact

\* a parsed body longer than the payload limit: the payload is cut and
\* marked, the next handler read all of it
C19_Witness ==
  /\ hpc = "done"
  /\ logPayloads
  /\ ToEndpoint
  /\ Len(sent) = maxBodySize
  /\ SentValue.kind = "object"
  /\ Len(span["mcp.request.payload"].bytes) = maxPayloadLen + 1
  /\ served[1].body = sent

Passed(name) == \E i \in 1 .. Len(visited) : visited[i] = name

\* C21 as stated: every answered request, one answered 429 by the rate
\* limiter included, has passed through the metrics stage.
C21_MetricsWrapAdmission ==
  Outcome # "pending" => Passed("metrics")

\* C21, amended: the metrics stage is inside the rate limiter and outside
\* authentication.  Every request that is not denied by the limiter passes
\* through the metrics stage, after the limiter when there is one; a request
\* answered 429 never reaches the metrics stage.
C21_MetricsInsideAdmission ==
  /\ Outcome \in {"Completed", "Unauthorized"} => Passed("metrics")
  /\ Outcome = "Denied" => ~Passed("metrics")
  /\ \A i, j \in 1 .. Len(visited) :
       visited[i] = "ratelimit" /\ visited[j] = "metrics" => i < j

\* the last request of a burst is answered 429 by the limiter
C21_Witness ==
  /\ Outcome = "Denied"
  /\ handled = MaxRequests
  /\ visited = <<"otelhttp", "ratelimit">>

\* the request has been answered
Answered == hpc = "idle" /\ handled > 0

\* C22: an answered request ended Completed, Denied or Unauthorized, an
\* unanswered one in none of them.  A Denied request stopped at the rate
\* limiter and an Unauthorized one at authentication, neither reached the
\* mux; a Completed one was answered by the mux.  A request enters
\* authentication only after the limiter, if there is one, has admitted it.
C22_RequestStateMachine ==
  /\ Answered <=> Outcome \in {"Completed", "Denied", "Unauthorized"}
  /\ Outcome = "Denied" =>
       ~Passed("mux") /\ ~Passed("auth") /\ visited[Len(visited)] = "ratelimit"
  /\ Outcome = "Unauthorized" =>
       ~Passed("mux") /\ visited[Len(visited)] = "auth"
  /\ Outcome = "Completed" => visited[Len(visited)] = "mux"
  /\ Passed("auth") /\ appCfg.RateLimitEnabled =>
       \E i, j \in 1 .. Len(visited) :
         i < j /\ visited[i] = "ratelimit" /\ visited[j] = "auth"

\* with the limiter and authentication enabled, a request with a valid key
\* is admitted, authorized and completed by the mux
C22_Witness ==
  /\ Outcome = "Completed"
  /\ appCfg.RateLimitEnabled /\ appCfg.AuthEnabled
  /\ req.Path = "/mcp"
  /\ visited = <<"otelhttp", "ratelimit", "tracing", "metrics", "auth", "mux">>

\* the credential the request presents
PresentedKey == HeaderGet(req.Header, "X-API-Key")

\* the request's path has a protected prefix
ProtectedPath == \E prefix \in protectedPrefixes : HasPrefix(req.Path, prefix)

\* C23: with authentication enabled, an answered request of a protected path
\* that the limiter did not deny is answered 401 {"error":"missing API key"}
\* when it presents no key and 401 {"error":"invalid API key"} when it presents
\* a key that is not stored; in both cases the mux is not entered.
C23_AuthFailures ==
  Answered /\ appCfg.AuthEnabled /\ ProtectedPath /\ Outcome # "Denied" =>
    /\ PresentedKey = EmptyString =>
         /\ reply.status = 401
         /\ reply.body = << <<"error", "missing API key">>, "\n" >>
         /\ ~Passed("mux")
    /\ /\ PresentedKey # EmptyString
       /\ \A i \in 1 .. Len(appCfg.apiKeys) : appCfg.apiKeys[i] # PresentedKey
       => /\ reply.status = 401
          /\ reply.body = << <<"error", "invalid API key">>, "\n" >>
          /\ ~Passed("mux")

\* a request of /mcp/x with a key that is not stored is answered 401
C23_Witness ==
  /\ Answered /\ appCfg.AuthEnabled
  /\ req.Path = "/mcp/x"
  /\ PresentedKey = <<"z">>
  /\ reply = Unauthorized("invalid API key")
  /\ visited[Len(visited)] = "auth"

\* the stored keys that are the key of the last call of ValidateAPIKey, byte
\* for byte
Matching == {i \in 1 .. Len(appCfg.apiKeys) : appCfg.apiKeys[i] = validated.key}

\* C24 as stated: ValidateAPIKey returns true iff exactly one stored key is
\* the presented key.
C24_ExactlyOneMatch ==
  hpc = "validated" => (validated.valid <=> Cardinality(Matching) = 1)

\* C24, amended: ValidateAPIKey returns true iff at least one stored key is
\* the presented key, byte for byte; it returns false for the empty key and
\* for every key when no key is stored.
C24_SomeMatch ==
  hpc = "validated" =>
    /\ validated.valid <=> Matching # {}
    /\ validated.key = EmptyString => ~validated.valid
    /\ appCfg.apiKeys = <<>> => ~validated.valid

\* API_KEYS names the same key twice and that key is presented
C24_Witness ==
  /\ hpc = "validated"
  /\ LookupEnv("API_KEYS").value = <<"k", ",", "k">>
  /\ appCfg.apiKeys = << <<"k">>, <<"k">> >>
  /\ validated.key = <<"k">>
  /\ validated.valid

\* C25: every call of ValidateAPIKey compares the presented key with every
\* stored key: the number of comparisons is the number of stored keys.
C25_ComparesAll ==
  hpc = "validated" => validated.compared = Len(appCfg.apiKeys)

\* the presented key is the first of two stored keys, and both were compared
C25_Witness ==
  /\ hpc = "validated"
  /\ appCfg.apiKeys = << <<"k">>, <<"K">> >>
  /\ validated = [key |-> <<"k">>, valid |-> TRUE, compared |-> 2]

\* C26: a request is answered 401 only when authentication is enabled and its
\* path has the protected prefix /mcp.  A request of /health or /metrics that
\* the limiter did not deny reaches the mux, whatever key it presents or
\* lacks, and a GET is answered by the path's handler.
C26_AuthOnlyProtected ==
  /\ Outcome = "Unauthorized" => appCfg.AuthEnabled /\ ProtectedPath
  /\ Answered /\ req.Path \in {"/health", "/metrics"} /\ Outcome # "Denied" =>
       /\ Outcome = "Completed" /\ Passed("mux")
       /\ req.Method = "GET" => MuxHandler(req) = req.Path /\ reply.status = 200

\* with authentication enabled, GET /health without a key passes the gate and
\* is answered by its handler
C26_Witness ==
  /\ Answered /\ appCfg.AuthEnabled
  /\ req.Method = "GET" /\ req.Path = "/health"
  /\ PresentedKey = EmptyString
  /\ Passed("auth") /\ Passed("mux")
  /\ reply.status = 200

\* C27: rate limiting is enabled unless RATE_LIMIT_ENABLED is set to a false
\* value.  Disabled: no limiter is built, no cleanup goroutine runs, no table
\* entry exists and no request is answered 429.  Enabled: the cleanup goroutine
\* was started, and a request enters every handler inside otelhttp only after
\* the limiter, whose Allow has recorded the request's identity in the table.
C27_AdmissionFlag ==
  /\ ~LookupEnv("RATE_LIMIT_ENABLED").exists => appCfg.RateLimitEnabled
  /\ ~appCfg.RateLimitEnabled =>
       /\ sweepPc = "unstarted" /\ burst = 0 /\ clients = <<>>
       /\ Outcome # "Denied" /\ ~Passed("ratelimit")
  /\ appCfg.RateLimitEnabled =>
       /\ sweepPc # "unstarted" /\ burst > 0
       /\ \A i \in 1 .. Len(visited) :
            visited[i] \notin {"otelhttp", "ratelimit"} =>
              \E j \in 1 .. i - 1 : visited[j] = "ratelimit"
       /\ Passed("ratelimit") => clientIP \in DOMAIN clients

\* RATE_LIMIT_ENABLED is unset and GET /health is answered after the limiter
\* admitted it
C27_Witness ==
  /\ ~LookupEnv("RATE_LIMIT_ENABLED").exists
  /\ Answered /\ req.Path = "/health" /\ req.Method = "GET"
  /\ visited[2] = "ratelimit" /\ Passed("mux")
  /\ clientIP \in DOMAIN clients

\* C30: a denied Allow call leaves in its bucket min(burst, tokens before +
\* elapsed x rate) tokens, which is less than one token and not less than
\* before, and the time the call read as lastCheck, so that the entry is not
\* stale at that time; it adds and removes no entry and changes no other one.
C30_DeniedRefillsOnly ==
  [][\A t \in Procs :
       AllowReturns(t) /\ ~result'[t] =>
         LET ip == reqIp[t]
             now == local[t].now
         IN  /\ ip \in DOMAIN clients
             /\ DOMAIN clients' = DOMAIN clients
             /\ clients'[ip].tokens =
                  Min(BurstUnits, clients[ip].tokens + (now - clients[ip].lastCheck) * rate)
             /\ clients'[ip].tokens < TokenUnit
             /\ clients'[ip].tokens >= clients[ip].tokens
             /\ clients'[ip].lastCheck = now
             /\ ip \notin Stale(clients', now)
             /\ \A j \in DOMAIN clients \ {ip} : clients'[j] = clients[j]]_vars

\* with burst 1 and half a token per tick, a call made one tick after the
\* bucket was emptied has been denied and has left the half token in it
C30_Witness ==
  \E t \in Procs :
    /\ pc[t] = "done" /\ ~result[t]
    /\ burst = 1 /\ rate = 1
    /\ reqIp[t] \in DOMAIN clients
    /\ clients[reqIp[t]] = [tokens |-> 1, lastCheck |-> Now]

\* C28: for every identity and every interval of length T, the Allow calls
\* admitted for the identity within the interval are at most burst + rate x T:
\* the identity's credit is never negative.
C28_RateBound ==
  \A i \in DOMAIN ideal : ideal[i].credit >= 0

\* C29: every Allow call returns what the same call, after the same earlier
\* calls at the same times, returns on a limiter with the same rate and burst
\* whose entries are never evicted.
C29_EvictionTransparent ==
  [][\A t \in Procs :
       AllowReturns(t) =>
         result'[t] = AllowSeq(ideal, reqIp[t], local[t].now).ok]_vars


Second == 1
RetryAfterSeconds == IF DenialResponse.retryAfter = "1" THEN 1 ELSE 0

\* C32: Retry-After is sufficient.  A call of an identity whose previous call
\* was denied, made the advertised Retry-After or more after that denial with
\* no call of the identity in between, is admitted.
C32_RetryAfterSufficient ==
  [][\A t \in Procs :
       ( /\ AllowReturns(t)
         /\ reqIp[t] \in DOMAIN ideal
         /\ ideal[reqIp[t]].denied >= 1
         /\ local[t].now - ideal[reqIp[t]].lastCheck >= RetryAfterSeconds * Second )
       => result'[t]]_vars


\* who is inside a critical section: a goroutine between rl.mu.Lock() and the
\* deferred unlock of Allow, the cleanup goroutine between Lock and Unlock
InAllow(t) == pc[t] \in {"read", "commit"}
InSweep == sweepPc = "sweeping"

C33_MutualExclusion ==
  /\ \A t \in Procs : InAllow(t) <=> mu = t
  /\ InSweep <=> mu = SweepId
  /\ \A t, u \in Procs : (InAllow(t) /\ InAllow(u)) => t = u
  /\ \A t \in Procs : ~(InAllow(t) /\ InSweep)

\* a step that changes the table (other than the clock's, which makes every
\* stored time one tick older), or that reads it into a goroutine's locals, is
\* taken by the holder of the mutex
C33_AccessUnderLock ==
  /\ (clients' \notin {clients, OlderTable(clients)} /\ ~crashed') => mu # Unlocked
  /\ \A t \in Procs : (local'[t] # local[t] /\ pc'[t] = "commit") => mu = t

\* C33: the table and the buckets are read and written only by the holder of
\* the limiter's mutex; the sweep and an Allow call, or two Allow calls, are
\* never inside the critical section together; and every Allow call of the
\* running process eventually returns.
C33_LockDiscipline ==
  /\ []C33_MutualExclusion
  /\ [][C33_AccessUnderLock]_vars
  /\ \A t \in Procs : (pc[t] = "lock") ~> (pc[t] = "done" \/ crashed)

\* a goroutine is inside Allow's critical section while the other goroutine
\* and the sweep both wait for the mutex
C33_Witness ==
  /\ pc[1] = "commit" /\ mu = 1
  /\ pc[2] = "lock"
  /\ sweepPc = "lock"
  /\ reqIp[1] = reqIp[2]
  /\ ~crashed


\* the tokens the bucket of an identity holds, a full bucket if it has none
TokensOf(table, ip) == IF ip \in DOMAIN table THEN table[ip].tokens ELSE BurstUnits

\* the step in which the limiter's middleware lets the request through
Admits == ~Passed("ratelimit") /\ Passed("ratelimit")' /\ Outcome' = "pending"

\* with a limiter in the chain, the request answered 401 was metered first:
\* the bucket of its identity exists and has paid a token
C34_UnauthorizedMetered ==
  (Outcome = "Unauthorized" /\ appCfg.RateLimitEnabled) =>
    /\ \E i, j \in 1 .. Len(visited) :
         i < j /\ visited[i] = "ratelimit" /\ visited[j] = "auth"
    /\ clientIP = extractIP(req)
    /\ clientIP \in DOMAIN clients
    /\ clients[clientIP].tokens <= BurstUnits - TokenUnit

\* a request the limiter denied never entered authentication
C34_DeniedUnchecked == Outcome = "Denied" => ~Passed("auth")

\* C34: admission metering precedes authentication.  The step that lets a
\* request through the limiter takes exactly one token from the bucket of the
\* request's identity; a request that ends Unauthorized has been through that
\* step before authentication saw it; a request the limiter denied is never
\* checked for credentials.
C34_MeteredBeforeAuth ==
  /\ [](C34_UnauthorizedMetered /\ C34_DeniedUnchecked)
  /\ [][Admits =>
         /\ clients'[extractIP(req)].tokens
              = TokensOf(clients, extractIP(req)) - TokenUnit
         /\ \A i \in DOMAIN clients \ {extractIP(req)} :
              i \in DOMAIN clients' /\ clients'[i] = clients[i]]_vars

\* a request without a credential was answered 401 after it took the last
\* token of its identity's bucket
C34_Witness ==
  /\ Outcome = "Unauthorized"
  /\ appCfg.RateLimitEnabled
  /\ "X-API-Key" \notin DOMAIN req.Header
  /\ clientIP \in DOMAIN clients
  /\ clients[clientIP].tokens = 0
  /\ handled > 1


\* a tools/call envelope was sent to the endpoint, within the size cap
ToolCallSent ==
  /\ ToEndpoint
  /\ ~OverCap
  /\ SentValue.kind = "object"
  /\ SentValue.method = "tools/call"

\* C35: for a tools/call whose params do not parse as tool-call params (a JSON
\* string) the introspector records the version, the method and the request
\* id (when the envelope has one), records neither tool name nor arguments,
\* and the next handler is invoked and reads the whole body; when the params
\* parse, the tool name is recorded with payload logging enabled or disabled.
C35_InvalidToolParams ==
  /\ (ToolCallSent /\ Introspected /\ SentValue.params.kind = "string") =>
       /\ "mcp.jsonrpc.version" \in DOMAIN span
       /\ span["mcp.jsonrpc.version"].str = SentValue.jsonrpc
       /\ "mcp.method" \in DOMAIN span
       /\ span["mcp.method"].str = "tools/call"
       /\ "mcp.request.id" \in DOMAIN span <=> SentValue.id.type \in {"number", "string"}
       /\ "mcp.tool.name" \notin DOMAIN span
       /\ "mcp.tool.arguments" \notin DOMAIN span
       /\ hpc = "done" => ServedIntact
  /\ (ToolCallSent /\ Introspected /\ SentValue.params.kind = "object") =>
       /\ "mcp.tool.name" \in DOMAIN span
       /\ span["mcp.tool.name"].str = SentValue.params.name

\* the request of the test: a tools/call with id 1 and a JSON string as
\* params, payload logging disabled; the next handler has read the body
C35_Witness ==
  /\ hpc = "done"
  /\ ~logPayloads
  /\ ToolCallSent
  /\ SentValue.jsonrpc = "2.0"
  /\ SentValue.id = JsonId("number", 2, "")
  /\ SentValue.params.kind = "string"
  /\ DOMAIN span = {"mcp.jsonrpc.version", "mcp.method", "mcp.request.id"}
  /\ Len(served) = 1
  /\ served[1].body = sent


\* C36: TracedTool is transparent.  A call of the wrapped handler invokes the
\* underlying handler exactly once, with the request and the input of the
\* call and a context that carries every value of the caller's context, and
\* returns the result, the output and the error the underlying handler
\* returned, with payload logging enabled or disabled.
C36_Transparent ==
  hpc = "tool" =>
    /\ tool.pc = "started" => tool.invoked = <<>>
    /\ tool.pc \in {"handled", "returned"} =>
         /\ Len(tool.invoked) = 1
         /\ tool.invoked[1].req = tool.req
         /\ tool.invoked[1].input = tool.input
         /\ \A k \in DOMAIN tool.ctx :
              /\ k \in DOMAIN tool.invoked[1].ctx
              /\ tool.invoked[1].ctx[k] = tool.ctx[k]
    /\ tool.pc = "returned" =>
         tool.ret = HandlerReturn(tool.kind, tool.invoked[1].ctx, tool.req, tool.input)

\* the second call, with payload logging enabled and a context that carries
\* a value: the underlying handler saw the value and the call returned it
C36_Witness ==
  /\ hpc = "tool"
  /\ tool.pc = "returned"
  /\ tool.calls = MaxToolCalls
  /\ tool.logPayloadsEnabled
  /\ tool.kind = "context"
  /\ tool.ctx = WithValue(Background, "test-key", "test-value")
  /\ tool.ret.output = "test-value"
  /\ "mcp.tool.output" \in DOMAIN span


\* the comma-separated pieces of a string, as positions: (i, j) is a piece
\* when s[i .. j] holds no comma and is bounded by commas or the ends of s
PiecesOf(s) ==
  {p \in (1 .. Len(s) + 1) \X (0 .. Len(s)) :
     /\ p[1] <= p[2] + 1
     /\ \A k \in p[1] .. p[2] : s[k] # ","
     /\ p[1] = 1 \/ s[p[1] - 1] = ","
     /\ p[2] = Len(s) \/ s[p[2] + 1] = ","}

\* a piece without its surrounding white space: from its first to its last
\* character that is not a space
Stripped(s, p) ==
  LET inked == {k \in p[1] .. p[2] : s[k] # " "}
  IN  IF inked = {} THEN EmptyString
      ELSE SubSeq(s, CHOOSE k \in inked : \A m \in inked : k <= m,
                     CHOOSE k \in inked : \A m \in inked : k >= m)

\* the configuration has been built
Configured == hpc \in {"configured", "validated"}

\* the keys stored are the pieces of API_KEYS that are not blank, trimmed, as
\* many as there are such pieces; none is empty
C37_KeysArePieces ==
  Configured =>
    LET keysStr == LookupEnv("API_KEYS").value
        kept == {p \in PiecesOf(keysStr) : Stripped(keysStr, p) # EmptyString}
    IN  /\ {appCfg.apiKeys[i] : i \in 1 .. Len(appCfg.apiKeys)}
             = {Stripped(keysStr, p) : p \in kept}
        /\ Len(appCfg.apiKeys) = Cardinality(kept)
        /\ \A i \in 1 .. Len(appCfg.apiKeys) :
             /\ appCfg.apiKeys[i] # EmptyString
             /\ Head(appCfg.apiKeys[i]) # " "
             /\ appCfg.apiKeys[i][Len(appCfg.apiKeys[i])] # " "

\* once built, the configuration does not change, and a key validated again
\* gets the answer it got before
C37_KeysFrozen ==
  Configured =>
    /\ appCfg' = appCfg
    /\ environ' = environ
    /\ (hpc = "validated" /\ validated'.key = validated.key) =>
         validated'.valid = validated.valid

\* C37: the keys New stores are exactly the pieces of the comma-separated
\* API_KEYS value that are non-empty after trimming, each trimmed; the empty
\* string is never stored; the stored keys never change after construction
\* and ValidateAPIKey answers the same for the same key every time.
C37_CredentialSet == [](C37_KeysArePieces) /\ [][C37_KeysFrozen]_vars

\* API_KEYS is " k,": the piece " k" is stored as "k", the empty piece is
\* not stored, and the key "k" is valid
C37_Witness ==
  /\ hpc = "validated"
  /\ LookupEnv("API_KEYS").value = <<" ", "k", ",">>
  /\ appCfg.apiKeys = << <<"k">> >>
  /\ validated.key = <<"k">>
  /\ validated.valid


\* C38: a request whose peer address is not empty resolves to an identity
\* that is not the empty string, whatever its X-Forwarded-For and X-Real-IP
\* headers hold.
C38_IdentityNonEmpty ==
  (hpc = "resolved" /\ req.RemoteAddr # EmptyString) => clientIP # EmptyString


\* how many times main has called rateLimiter.Stop()
StopsCalled ==
  Cardinality({i \in 1 .. Len(shutdown) : shutdown[i] = "rateLimiter.Stop"})

\* C39: in the HTTP transport main, once signalled, shuts the HTTP server
\* down first and calls the limiter's Stop() afterwards, once, and only if a
\* limiter was built; Stop() is never called twice and the process never
\* panics in it; without a limiter, and in the stdio transport, Stop() is not
\* called at all.
C39_StopOnceAfterShutdown ==
  /\ \A i \in 1 .. Len(shutdown) :
       shutdown[i] = "rateLimiter.Stop" =>
         /\ i > 1 /\ shutdown[1] = "srv.Shutdown"
         /\ HTTPTransport /\ appCfg.RateLimitEnabled
         /\ sweepPc # "unstarted"
  /\ StopsCalled <= 1
  /\ stopCalls = StopsCalled
  /\ ~crashed
  /\ shutdown # <<>> => hpc \in {"signalled", "complete"}
  /\ hpc = "complete" =>
       /\ shutdown[1] = "srv.Shutdown"
       /\ StopsCalled = (IF HTTPTransport /\ appCfg.RateLimitEnabled THEN 1 ELSE 0)
       /\ StopsCalled = 1 => stopClosed

\* main has returned in the HTTP transport after it stopped the limiter that
\* had served a request, and the cleanup goroutine has exited
C39_Witness ==
  /\ hpc = "complete"
  /\ HTTPTransport
  /\ shutdown = <<"srv.Shutdown", "rateLimiter.Stop">>
  /\ stopCalls = 1 /\ stopClosed
  /\ sweepPc = "exited"
  /\ clients # <<>>

====
